---------------------------- MODULE Spec2Model ----------------------------
(***************************************************************************)
(* A model of the AgentMarKB knowledge-base synchronisation engine:        *)
(*   - background/service-worker.js: the URL / handle normalisers, the    *)
(*     author / content / topic-index mutation engine, saveToKB,          *)
(*     saveBookmark and the kbCache;                                      *)
(*   - utils/deduplication.js: the shared normalisers;                     *)
(*   - the native messaging host (native-host/kb_host.py), which is not    *)
(*     among the sources and is modelled from its documented contract.    *)
(*                                                                         *)
(* Strings are sequences of atoms. An atom is either a delimiter           *)
(* ("/", "?", "&", "=", "#", "@", " ") or a word holding no delimiter, so  *)
(* that every pattern the code matches ('//x.com/', a leading '@', a run   *)
(* of trailing '/') begins and ends on atom boundaries.                    *)
(***************************************************************************)
EXTENDS Integers, Sequences, FiniteSets, TLC

VARIABLES
  disk,        \* the Index Document in the KB file
  tmp,         \* the temporary sibling file of an atomic replace ("none" when absent)
  wlock,       \* the process holding the exclusive fcntl lock ("none" when free)
  folders,     \* slug -> content of the Bookmark Document folder, per created slug
  kbCache,     \* service worker: "none" (null) or the process whose kb object it references
  pc,          \* per message handler: its position
  req,         \* per message handler: the message it is handling
  kb,          \* per message handler: the kb object its read returned (mutated in place)
  snap,        \* per message handler: the document exactly as the host read it (history)
  resp,        \* per message handler: the native host's last response
  result,      \* per message handler: the response sent back to the caller
  cres,        \* per message handler: contentResult of saveToKB
  nOps,        \* number of messages dispatched so far
  sent,        \* per message handler: the native messages it has sent, in order (history)
  recentAdditions, \* chrome.storage.local: the list of recent additions, newest first
  arg,         \* pure-function specifications: the input drawn
  ret          \* pure-function specifications: the value computed

vars ==
  <<disk, tmp, wlock, folders, kbCache, pc, req, kb, snap, resp, result, cres, nOps, sent,
    recentAdditions, arg, ret>>
sysVars ==
  <<disk, tmp, wlock, folders, kbCache, pc, req, kb, snap, resp, result, cres, nOps, sent,
    recentAdditions>>

\* JavaScript null, as a string value no string of the model equals
Null == <<"<null>">>

Max(S) == CHOOSE x \in S : \A y \in S : y <= x
Min(S) == CHOOSE x \in S : \A y \in S : x <= y

\* F(e) and F(e1, e2), with each argument evaluated once
Let(e, F(_)) == CHOOSE r \in {F(x) : x \in {e}} : TRUE
Let2(e1, e2, F(_, _)) == CHOOSE r \in {F(x, y) : x \in {e1}, y \in {e2}} : TRUE

\* the k-th smallest element of a set of numbers
nth(S, k) == CHOOSE i \in S : Cardinality({j \in S : j <= i}) = k

(***************************************************************************)
(* String primitives of JavaScript, on atom sequences.                     *)
(***************************************************************************)
LowerMap ==
  ("Alice" :> "alice") @@ ("ALICE" :> "alice") @@ ("Bob" :> "bob") @@
  ("Carol" :> "carol") @@ ("In" :> "in") @@ ("P" :> "p") @@
  ("Status" :> "status") @@ ("News" :> "news") @@ ("Example" :> "example") @@
  ("Eve" :> "eve") @@ ("UTM_SOURCE" :> "utm_source") @@ ("Top" :> "top") @@
  ("AI" :> "ai") @@ ("HTTPS:" :> "https:") @@ ("X.com" :> "x.com") @@
  ("Twitter.com" :> "twitter.com") @@ ("%2F" :> "%2f") @@ ("%3F" :> "%3f") @@
  ("%3D" :> "%3d") @@ ("H" :> "h") @@ ("U" :> "u") @@ ("X" :> "x")

Lower(a) == IF a \in DOMAIN LowerMap THEN LowerMap[a] ELSE a

toLowerCase(s) == Let(s, LAMBDA v : [i \in 1..Len(v) |-> Lower(v[i])])

\* String.prototype.trim
trim(s) ==
  Let(s, LAMBDA v :
    Let({i \in 1..Len(v) : v[i] # " "}, LAMBDA keep :
      IF keep = {} THEN <<>> ELSE SubSeq(v, Min(keep), Max(keep))))

\* s.replace(/\/+$/, '')
stripTrailingSlashes(s) ==
  Let(s, LAMBDA v :
    Let({i \in 1..Len(v) : v[i] # "/"}, LAMBDA keep :
      IF keep = {} THEN <<>> ELSE SubSeq(v, 1, Max(keep))))

\* s.replace(/^@/, '')
stripLeadingAt(s) == Let(s, LAMBDA v : IF Len(v) > 0 /\ v[1] = "@" THEN Tail(v) ELSE v)

\* s.indexOf(pat), 1-based; 0 when absent
indexOf(s, pat) ==
  Let2(s, pat, LAMBDA v, w :
    Let({i \in 1..(Len(v) - Len(w) + 1) : SubSeq(v, i, i + Len(w) - 1) = w}, LAMBDA hits :
      IF hits = {} THEN 0 ELSE Min(hits)))

\* s.replace(pat, rep) with a string pattern: the first occurrence only
replaceFirst(s, pat, rep) ==
  Let2(s, pat, LAMBDA v, w :
    Let(indexOf(v, w), LAMBDA i :
      IF i = 0 \/ Len(w) = 0 THEN v
      ELSE SubSeq(v, 1, i - 1) \o rep \o SubSeq(v, i + Len(w), Len(v))))

endsWith(s, suf) ==
  Let2(s, suf, LAMBDA v, w :
    Len(w) <= Len(v) /\ SubSeq(v, Len(v) - Len(w) + 1, Len(v)) = w)

(***************************************************************************)
(* new URL(url): the WHATWG parser on the URL shapes of the model,         *)
(*   scheme "/" "/" host path ["?" query] ["#" fragment].                 *)
(* Anything else is a parse failure (TypeError).                           *)
(***************************************************************************)
Schemes == {"https:", "HTTPS:"}
Delims == {"/", "?", "&", "=", "#", "@", " "}

firstIndex(s, a) ==
  Let(s, LAMBDA v :
    Let({i \in 1..Len(v) : v[i] = a}, LAMBDA hits :
      IF hits = {} THEN Len(v) + 1 ELSE Min(hits)))

\* s.split(a)
splitOn(s, a) ==
  Let(s, LAMBDA v :
    Let({i \in 1..Len(v) : v[i] = a}, LAMBDA cuts :
      [k \in 1..(Cardinality(cuts) + 1) |->
         SubSeq(v, (IF k = 1 THEN 0 ELSE nth(cuts, k - 1)) + 1,
                   (IF k > Cardinality(cuts) THEN Len(v) + 1 ELSE nth(cuts, k)) - 1)]))

\* application/x-www-form-urlencoded parsing of the query into name/value pairs
parseQuery(q) ==
  Let(SelectSeq(splitOn(q, "&"), LAMBDA p : p # <<>>), LAMBDA pieces :
    [i \in 1..Len(pieces) |->
       Let(firstIndex(pieces[i], "="), LAMBDA e :
         [name |-> SubSeq(pieces[i], 1, e - 1),
          value |-> SubSeq(pieces[i], e + 1, Len(pieces[i]))])])

\* the urlencoded serialiser percent-encodes '/', '?', '@', '#' and writes ' ' as '+'
encodeAtom(a) ==
  CASE a = "/" -> "%2F"
    [] a = "?" -> "%3F"
    [] a = "@" -> "%40"
    [] a = "=" -> "%3D"
    [] a = " " -> "+"
    [] OTHER -> a

encodeComponent(s) == Let(s, LAMBDA v : [i \in 1..Len(v) |-> encodeAtom(v[i])])

RECURSIVE serializeFrom(_, _)
serializeFrom(ps, i) ==
  IF i > Len(ps) THEN <<>>
  ELSE encodeComponent(ps[i].name) \o <<"=">> \o encodeComponent(ps[i].value)
       \o (IF i < Len(ps) THEN <<"&">> ELSE <<>>) \o serializeFrom(ps, i + 1)

serializeQuery(ps) == Let(ps, LAMBDA v : serializeFrom(v, 1))

parseUrl(url0) ==
  Let(url0, LAMBDA url :
    IF url = Null \/ Len(url) < 4 \/ url[1] \notin Schemes \/ url[2] # "/" \/ url[3] # "/"
       \/ url[4] \in Delims
    THEN [ok |-> FALSE]
    ELSE Let(SubSeq(url, 5, Len(url)), LAMBDA rest :
         Let(firstIndex(rest, "#"), LAMBDA h :
         Let(SubSeq(rest, 1, h - 1), LAMBDA body :
         Let(firstIndex(body, "?"), LAMBDA q :
           [ok       |-> TRUE,
            scheme   |-> Lower(url[1]),
            hostname |-> Lower(url[4]),
            pathname |-> IF q = 1 THEN <<"/">> ELSE SubSeq(body, 1, q - 1),
            query    |-> SubSeq(body, q + 1, Len(body)),
            hasQuery |-> q <= Len(body),
            hash     |-> IF h < Len(rest) THEN SubSeq(rest, h, Len(rest)) ELSE <<>>,
            hasHash  |-> h <= Len(rest)])))))

\* parsed.searchParams.delete(p) for every p of params, then the update steps:
\* the query is re-serialised, and is null when the list is empty
deleteParams(parsed0, params) ==
  Let(parsed0, LAMBDA parsed :
    Let(serializeQuery(SelectSeq(parseQuery(parsed.query),
                                 LAMBDA p : ~(Len(p.name) = 1 /\ p.name[1] \in params))),
        LAMBDA q : [parsed EXCEPT !.query = q, !.hasQuery = (q # <<>>)]))

\* parsed.href
href(parsed0) ==
  Let(parsed0, LAMBDA parsed :
    <<parsed.scheme, "/", "/", parsed.hostname>> \o parsed.pathname
    \o (IF parsed.hasQuery THEN <<"?">> \o parsed.query ELSE <<>>)
    \o (IF parsed.hasHash THEN (IF parsed.hash = <<>> THEN <<"#">> ELSE parsed.hash) ELSE <<>>))

(***************************************************************************)
(* service-worker.js: normalizeUrl and normalizeHandle. Throw is the value *)
(* of a call that throws (a TypeError on null input).                      *)
(***************************************************************************)
Throw == <<"<throw>">>

trackingParams ==
  {"utm_source", "utm_medium", "utm_campaign", "utm_term", "utm_content",
   "ref", "source", "fbclid", "gclid"}

normalizeUrl_noHostForm(url0) ==
  Let(url0, LAMBDA url :
    IF url = Null THEN Throw
    ELSE Let(parseUrl(url), LAMBDA parsed :
           IF ~parsed.ok THEN toLowerCase(url)
           ELSE toLowerCase(stripTrailingSlashes(href(deleteParams(parsed, trackingParams))))))

normalizeUrl_keepTracking(url0) ==
  Let(url0, LAMBDA url :
    IF url = Null THEN Throw
    ELSE Let(parseUrl(url), LAMBDA parsed :
           IF ~parsed.ok THEN toLowerCase(url)
           ELSE toLowerCase(
                  replaceFirst(
                    replaceFirst(stripTrailingSlashes(href(parsed)),
                                 <<"/", "/", "x.com", "/">>, <<"/", "/", "twitter.com", "/">>),
                    <<"/", "/", "www.x.com", "/">>, <<"/", "/", "twitter.com", "/">>))))

normalizeUrl_caseSensitive(url0) ==
  Let(url0, LAMBDA url :
    IF url = Null THEN Throw
    ELSE Let(parseUrl(url), LAMBDA parsed :
           IF ~parsed.ok THEN url
           ELSE (
                  replaceFirst(
                    replaceFirst(stripTrailingSlashes(href(deleteParams(parsed, trackingParams))),
                                 <<"/", "/", "x.com", "/">>, <<"/", "/", "twitter.com", "/">>),
                    <<"/", "/", "www.x.com", "/">>, <<"/", "/", "twitter.com", "/">>))))

\* new URL(null) throws, and so does null.toLowerCase() in the catch
normalizeUrl(url0) ==
  Let(url0, LAMBDA url :
    IF url = Null THEN Throw
    ELSE Let(parseUrl(url), LAMBDA parsed :
           IF ~parsed.ok THEN toLowerCase(url)
           ELSE toLowerCase(
                  replaceFirst(
                    replaceFirst(stripTrailingSlashes(href(deleteParams(parsed, trackingParams))),
                                 <<"/", "/", "x.com", "/">>, <<"/", "/", "twitter.com", "/">>),
                    <<"/", "/", "www.x.com", "/">>, <<"/", "/", "twitter.com", "/">>))))

normalizeHandle_caseSensitive(handle) ==
  IF handle = Null THEN Throw ELSE trim(stripLeadingAt(handle))

normalizeHandle_keepAt(handle) ==
  IF handle = Null THEN Throw ELSE trim(toLowerCase(handle))

normalizeHandle(handle) ==
  IF handle = Null THEN Throw ELSE trim(toLowerCase(stripLeadingAt(handle)))

(***************************************************************************)
(* utils/deduplication.js: the shared normalisers.                         *)
(***************************************************************************)
TRACKING_PARAMS ==
  {"utm_source", "utm_medium", "utm_campaign", "utm_term", "utm_content",
   "ref", "source", "fbclid", "gclid", "mc_cid", "mc_eid", "_hsenc", "_hsmi",
   "trk", "trkInfo"}

\* s.replace(/\/\/(www\.)?(h1|h2)\//, '//' + to + '/'): the leftmost match
replaceHostForm(s, hosts, to) ==
  Let(s, LAMBDA v :
    Let({i \in 1..(Len(v) - 3) :
           v[i] = "/" /\ v[i + 1] = "/" /\ v[i + 2] \in hosts /\ v[i + 3] = "/"}, LAMBDA hits :
      IF hits = {} THEN v
      ELSE SubSeq(v, 1, Min(hits) + 1) \o <<to>> \o SubSeq(v, Min(hits) + 3, Len(v))))

\* the removal of a fragment that holds no '=' and does not start with '#!'
removeHash(s, hash) ==
  IF hash # <<>> /\ "=" \notin {hash[i] : i \in 1..Len(hash)} /\ ~(Len(hash) > 1 /\ hash[2] = "!")
  THEN replaceFirst(s, hash, <<>>) ELSE s

\* the trailing slashes go, but the single slash of the root stays
keepRootSlash(s, hostname) ==
  Let(stripTrailingSlashes(s), LAMBDA v : IF endsWith(v, <<hostname>>) THEN v \o <<"/">> ELSE v)

dedupNormalizeUrl(url0) ==
  Let(url0, LAMBDA url :
    IF url = Null \/ url = <<>> THEN <<>>
    ELSE Let(parseUrl(url), LAMBDA parsed :
           IF ~parsed.ok THEN stripTrailingSlashes(toLowerCase(url))
           ELSE Let(deleteParams(parsed, TRACKING_PARAMS), LAMBDA p1 :
                  toLowerCase(
                    removeHash(
                      replaceHostForm(
                        replaceHostForm(keepRootSlash(href(p1), p1.hostname),
                                        {"twitter.com", "x.com", "www.twitter.com", "www.x.com"},
                                        "x.com"),
                        {"linkedin.com", "www.linkedin.com"}, "www.linkedin.com"),
                      p1.hash)))))

dedupNormalizeHandle(handle) ==
  IF handle = Null \/ handle = <<>> THEN <<>> ELSE trim(toLowerCase(stripLeadingAt(handle)))

urlsMatch(url1, url2) == dedupNormalizeUrl(url1) = dedupNormalizeUrl(url2)

handlesMatch(handle1, handle2) == dedupNormalizeHandle(handle1) = dedupNormalizeHandle(handle2)

(***************************************************************************)
(* The inputs of the normaliser specification: pairs of URLs that differ   *)
(* only by known tracking parameters, by a trailing slash, or by the       *)
(* x.com / twitter.com host form, and pairs of handles that differ only    *)
(* by a leading '@' or by letter case.                                     *)
(***************************************************************************)
MaxSegs == 2

Segs == {"Alice", "status"}
UrlHosts == {"x.com", "twitter.com", "www.x.com", "www.twitter.com", "example.com"}
PlainQueries == {<<>>, <<"id", "=", "1">>}
TrackingQueries == {<<"utm_source", "=", "a">>, <<"ref", "=", "b", "&", "fbclid", "=", "c">>}

RECURSIVE pathOf(_)
pathOf(segs) == IF segs = <<>> THEN <<>> ELSE <<"/", Head(segs)>> \o pathOf(Tail(segs))

UrlPaths == {pathOf(p) : p \in UNION {[1..k -> Segs] : k \in 0..MaxSegs}}

renderUrl(host, path, query) ==
  <<"https:", "/", "/", host>> \o path \o (IF query = <<>> THEN <<>> ELSE <<"?">> \o query)

joinQuery(q1, q2) ==
  IF q1 = <<>> THEN q2 ELSE IF q2 = <<>> THEN q1 ELSE q1 \o <<"&">> \o q2

otherHostForm(host) ==
  CASE host = "x.com" -> "twitter.com"
    [] host = "twitter.com" -> "x.com"
    [] host = "www.x.com" -> "www.twitter.com"
    [] host = "www.twitter.com" -> "www.x.com"
    [] OTHER -> host

UrlPathsSlash == UrlPaths \cup {p \o <<"/">> : p \in UrlPaths}

TrackingPairs ==
  UNION {{[kind |-> "tracking", u |-> renderUrl(h, p, q), v |-> renderUrl(h, p, joinQuery(q, t))],
          [kind |-> "tracking", u |-> renderUrl(h, p, q), v |-> renderUrl(h, p, joinQuery(t, q))]} :
           <<h, p, q, t>> \in UrlHosts \X UrlPathsSlash \X PlainQueries \X TrackingQueries}

SlashPairs ==
  {[kind |-> "slash", u |-> renderUrl(h, p, <<>>), v |-> renderUrl(h, p, <<>>) \o <<"/">>] :
     <<h, p>> \in UrlHosts \X UrlPaths}

HostFormPairs ==
  {[kind |-> "host", u |-> renderUrl(h, p, q), v |-> renderUrl(otherHostForm(h), p, q)] :
     <<h, p, q>> \in (UrlHosts \ {"example.com"}) \X UrlPathsSlash \X PlainQueries}

HandleNames == {"Alice", "ALICE", "alice", "Bob", "bob"}
HandleForms == {<<n>> : n \in HandleNames} \cup {<<"@", n>> : n \in HandleNames}
handleName(h) == h[Len(h)]

HandlePairs ==
  {[kind |-> "handle", u |-> hs[1], v |-> hs[2]] :
     hs \in {hs \in HandleForms \X HandleForms : Lower(handleName(hs[1])) = Lower(handleName(hs[2]))}}

\* contentData of a save without content (a profile or publication page)
NoContent == [url |-> Null, title |-> Null, date_published |-> Null, topics |-> <<>>, date_saved |-> Null]
NoContentResult == [isNew |-> FALSE, success |-> TRUE, reason |-> "null"]

NoCall == [done |-> FALSE]
NoArg == [kind |-> "none"]

(***************************************************************************)
(* Array.prototype.sort() with no comparator: by UTF-16 code units of the  *)
(* elements as strings. AtomOrder lists the atoms of the names, handles    *)
(* and topics of the model in code-unit order; null sorts as the string    *)
(* "null".                                                                 *)
(***************************************************************************)
AtomOrder ==
  <<" ", "@", "A", "Alice", "Bob", "C", "Carol", "Dan", "Eve", "News", "Zed",
    "ai", "alice", "dev", "eve", "ml", "<null>">>

atomRank(a) == Min({i \in 1..Len(AtomOrder) : AtomOrder[i] = a} \cup {Len(AtomOrder) + 1})

\* s < t in code-unit order
lessStr(s, t) ==
  Let2(s, t, LAMBDA v, w :
    Let({i \in 1..(IF Len(v) < Len(w) THEN Len(v) ELSE Len(w)) : v[i] # w[i]}, LAMBDA diff :
      IF diff = {} THEN Len(v) < Len(w)
      ELSE atomRank(v[Min(diff)]) < atomRank(w[Min(diff)])))

\* a stable sort: the element at index i goes after the smaller ones and after the
\* equal ones before it
sort(s) ==
  Let(s, LAMBDA v :
    Let([i \in 1..Len(v) |->
           1 + Cardinality({j \in 1..Len(v) :
                              lessStr(v[j], v[i]) \/ (j < i /\ ~lessStr(v[i], v[j]))})],
        LAMBDA rank : [k \in 1..Len(v) |-> v[CHOOSE i \in 1..Len(v) : rank[i] = k]]))

elems(s) == {s[i] : i \in 1..Len(s)}

includes(s, e) == Let2(s, e, LAMBDA v, x : \E i \in 1..Len(v) : v[i] = x)

\* Array.from(new Set(s)): the first occurrence of every element, in order
uniq(s) ==
  Let(s, LAMBDA v :
    Let({i \in 1..Len(v) : \A j \in 1..(i - 1) : v[j] # v[i]}, LAMBDA first :
      [k \in 1..Cardinality(first) |-> v[nth(first, k)]]))

(***************************************************************************)
(* service-worker.js: the KB mutation engine. An Author and a Content are  *)
(* records in which a field the object does not have is Null.              *)
(***************************************************************************)
\* x?.toLowerCase()
optLower(x) == IF x = Null THEN Null ELSE toLowerCase(x)

getAuthorIdentifier(platform, authorData) ==
  CASE platform = "x" -> authorData.handle
    [] platform = "linkedin" -> authorData.profile_url
    [] platform = "substack" -> authorData.url
    [] platform = "generic_web" -> [name |-> authorData.name, source |-> authorData.source]
    [] OTHER -> Null

\* whether the loop body of findAuthor returns the author, falls through or throws
matchAuthor_exact(platform, author, identifier) ==
  CASE platform = "x" -> IF author.handle = identifier THEN "match" ELSE "no"
    [] platform = "linkedin" -> IF author.profile_url = identifier THEN "match" ELSE "no"
    [] platform = "substack" -> IF author.url = identifier THEN "match" ELSE "no"
    [] platform = "generic_web" ->
         IF author.name = identifier.name /\ author.source = identifier.source
         THEN "match" ELSE "no"
    [] OTHER -> "no"

matchAuthor(platform, author, identifier) ==
  CASE platform = "x" ->
         IF author.handle = Null \/ identifier = Null THEN "throw"
         ELSE IF normalizeHandle(author.handle) = normalizeHandle(identifier) THEN "match" ELSE "no"
    [] platform = "linkedin" ->
         IF author.profile_url = Null \/ identifier = Null THEN "throw"
         ELSE IF normalizeUrl(author.profile_url) = normalizeUrl(identifier) THEN "match" ELSE "no"
    [] platform = "substack" ->
         IF author.url = Null \/ identifier = Null THEN "throw"
         ELSE IF normalizeUrl(author.url) = normalizeUrl(identifier) THEN "match" ELSE "no"
    [] platform = "generic_web" ->
         IF /\ optLower(author.name) = optLower(identifier.name)
            /\ optLower(author.source) = optLower(identifier.source)
         THEN "match" ELSE "no"
    [] OTHER -> "no"

\* the index of the author returned (0 for null, -1 when the search throws)
findAuthor(kbDoc, platform, identifier) ==
  Let2(IF platform \in DOMAIN kbDoc.favorite_authors
       THEN kbDoc.favorite_authors[platform] ELSE <<>>, identifier, LAMBDA authors, id :
    Let([i \in 1..Len(authors) |-> matchAuthor(platform, authors[i], id)], LAMBDA found :
      Let({i \in 1..Len(authors) : found[i] # "no"}, LAMBDA hits :
        IF hits = {} THEN 0
        ELSE IF found[Min(hits)] = "throw" THEN -1
        ELSE Min(hits))))

contentKey(platform) ==
  IF platform = "x" \/ platform = "linkedin" THEN "saved_posts" ELSE "saved_articles"

contentExists_exact(author, url, platform) ==
  \E i \in 1..Len(author[contentKey(platform)]) : author[contentKey(platform)][i].url = url

contentExists(author, url, platform) ==
  Let2(author[contentKey(platform)], normalizeUrl(url), LAMBDA savedContent, normalizedUrl :
    \E i \in 1..Len(savedContent) : normalizeUrl(savedContent[i].url) = normalizedUrl)

addOrUpdateAuthor_alwaysPush(kbDoc, platform, authorData) ==
  [kb |-> [kbDoc EXCEPT !.favorite_authors[platform] = Append(@, authorData)],
   idx |-> Len(kbDoc.favorite_authors[platform]) + 1, isNew |-> TRUE, threw |-> FALSE]

\* if (!kb.favorite_authors[platform]) kb.favorite_authors[platform] = []
ensurePlatform(kbDoc, platform) ==
  IF platform \in DOMAIN kbDoc.favorite_authors THEN kbDoc
  ELSE [kbDoc EXCEPT !.favorite_authors =
          [pl \in DOMAIN kbDoc.favorite_authors \cup {platform} |->
             IF pl = platform THEN <<>> ELSE kbDoc.favorite_authors[pl]]]

addOrUpdateAuthor_noMerge(kbDoc0, platform, authorData) ==
  Let(ensurePlatform(kbDoc0, platform), LAMBDA kbDoc :
    Let(findAuthor(kbDoc, platform, getAuthorIdentifier(platform, authorData)), LAMBDA existing :
      IF existing = -1 THEN [kb |-> kbDoc, idx |-> 0, isNew |-> FALSE, threw |-> TRUE]
      ELSE IF existing > 0
      THEN [kb |-> kbDoc, idx |-> existing, isNew |-> FALSE, threw |-> FALSE]
      ELSE [kb |-> [kbDoc EXCEPT !.favorite_authors[platform] = Append(@, authorData)],
            idx |-> Len(kbDoc.favorite_authors[platform]) + 1, isNew |-> TRUE, threw |-> FALSE]))

addOrUpdateAuthor(kbDoc0, platform, authorData) ==
  Let(ensurePlatform(kbDoc0, platform), LAMBDA kbDoc :
    Let(findAuthor(kbDoc, platform, getAuthorIdentifier(platform, authorData)), LAMBDA existing :
      IF existing = -1 THEN [kb |-> kbDoc, idx |-> 0, isNew |-> FALSE, threw |-> TRUE]
      ELSE IF existing > 0
      THEN [kb |-> [kbDoc EXCEPT !.favorite_authors[platform][existing].topics =
                                    uniq(@ \o authorData.topics)],
            idx |-> existing, isNew |-> FALSE, threw |-> FALSE]
      ELSE [kb |-> [kbDoc EXCEPT !.favorite_authors[platform] = Append(@, authorData)],
            idx |-> Len(kbDoc.favorite_authors[platform]) + 1, isNew |-> TRUE, threw |-> FALSE]))

\* new Date().toISOString().split('T')[0]
Today == <<"2026-01-15">>

addContent_noCheck(author, platform, contentData) ==
  [author |-> [author EXCEPT ![contentKey(platform)] =
                               Append(@, [contentData EXCEPT !.date_saved = Today])],
   res |-> [success |-> TRUE, reason |-> "null"]]

addContent(author, platform, contentData) ==
  IF contentExists(author, contentData.url, platform)
  THEN [author |-> author, res |-> [success |-> FALSE, reason |-> "duplicate"]]
  ELSE [author |-> [author EXCEPT ![contentKey(platform)] =
                                    Append(@, [contentData EXCEPT !.date_saved = Today])],
        res |-> [success |-> TRUE, reason |-> "null"]]

\* topic_index is the sequence of its (key, references) entries in key order
topicKeys(index) == [i \in 1..Len(index) |-> index[i].key]

topicPos(index, topic) ==
  Let(index, LAMBDA ix : Min({i \in 1..Len(ix) : ix[i].key = topic} \cup {Len(ix) + 1}))

\* the body of the loop of updateTopicIndex, for one topic
addTopicRef_noSort(index, topic, authorRef) ==
  Let2(topicPos(index, topic), authorRef, LAMBDA i, ref :
    Let(IF i > Len(index) THEN Append(index, [key |-> topic, refs |-> <<>>]) ELSE index,
        LAMBDA withKey :
          IF includes(withKey[i].refs, ref) THEN withKey
          ELSE [withKey EXCEPT ![i].refs = Append(@, ref)]))

addTopicRef_noCheck(index, topic, authorRef) ==
  Let2(topicPos(index, topic), authorRef, LAMBDA i, ref :
    Let(IF i > Len(index) THEN Append(index, [key |-> topic, refs |-> <<>>]) ELSE index,
        LAMBDA withKey :
          [withKey EXCEPT ![i].refs = sort(Append(@, ref))]))

addTopicRef(index, topic, authorRef) ==
  Let2(topicPos(index, topic), authorRef, LAMBDA i, ref :
    Let(IF i > Len(index) THEN Append(index, [key |-> topic, refs |-> <<>>]) ELSE index,
        LAMBDA withKey :
          IF includes(withKey[i].refs, ref) THEN withKey
          ELSE [withKey EXCEPT ![i].refs = sort(Append(@, ref))]))

RECURSIVE addTopicRefs(_, _, _, _)
addTopicRefs(index, topics, n, authorRef) ==
  IF n > Len(topics) THEN index
  ELSE Let(addTopicRef(index, topics[n], authorRef), LAMBDA ix :
         addTopicRefs(ix, topics, n + 1, authorRef))

\* Object.keys(kb.topic_index).sort() and the rebuild of the object in that order
sortKeys_none(index) == index

sortKeys(index) ==
  Let(index, LAMBDA ix :
    Let(sort([i \in 1..Len(ix) |-> <<ix[i].key>>]), LAMBDA keys :
      [i \in 1..Len(keys) |-> ix[topicPos(ix, keys[i][1])]]))

updateTopicIndex(kbDoc, topics, authorRef) ==
  Let2(topics, authorRef, LAMBDA ts, ref :
    [kbDoc EXCEPT !.topic_index = sortKeys(addTopicRefs(@, ts, 1, ref))])

getAuthorRef(platform, author) ==
  CASE platform = "x" -> <<"@">> \o author.handle
    [] platform = "linkedin" -> author.name
    [] platform = "substack" ->
         IF author.name # Null /\ author.name # <<>> THEN author.name ELSE author.author
    [] platform = "generic_web" -> author.name
    [] OTHER -> IF author.name # Null /\ author.name # <<>> THEN author.name ELSE <<"Unknown">>

\* the synchronous part of saveToKB between the read and the write
mutateKB(kbDoc, platform, authorData, contentData, topics) ==
  Let(addOrUpdateAuthor(kbDoc, platform, authorData), LAMBDA au :
    IF au.threw THEN [threw |-> TRUE, kb |-> kbDoc, isNew |-> FALSE, res |-> NoContentResult]
    ELSE Let(IF contentData = NoContent
             THEN [author |-> au.kb.favorite_authors[platform][au.idx], res |-> NoContentResult]
             ELSE addContent(au.kb.favorite_authors[platform][au.idx], platform,
                             [contentData EXCEPT !.topics = topics]),
             LAMBDA ac :
               Let([au.kb EXCEPT !.favorite_authors[platform][au.idx] = ac.author], LAMBDA kb1 :
                 [threw |-> FALSE,
                  kb |-> IF Len(topics) > 0
                         THEN updateTopicIndex(kb1, topics, getAuthorRef(platform, ac.author))
                         ELSE kb1,
                  isNew |-> au.isNew,
                  res |-> ac.res])))

(***************************************************************************)
(* service-worker.js: generateSlug. Titles are strings of one-character    *)
(* atoms, so that substring(0, 80) counts characters.                      *)
(***************************************************************************)
SlugTextMax == 80

\* the one-character atoms that match [a-z0-9]
AlnumAtoms ==
  {"a", "b", "c", "d", "e", "f", "g", "h", "i", "j", "k", "l", "m", "n", "o", "p", "q", "r",
   "s", "t", "u", "v", "w", "x", "y", "z", "0", "1", "2", "3", "4", "5", "6", "7", "8", "9"}

Digits == <<"0", "1", "2", "3", "4", "5", "6", "7", "8", "9">>

\* the decimal digits of n, padded with zeros to width w
pad(n, w) == [i \in 1..w |-> Digits[((n \div (10 ^ (w - i))) % 10) + 1]]

\* d.toISOString().split('T')[0]: four digits for the years 0 to 9999, a sign and
\* six digits for every other year
toISODate(d) ==
  (IF d.year \in 0..9999 THEN pad(d.year, 4)
   ELSE <<IF d.year < 0 THEN "-" ELSE "+">> \o pad(IF d.year < 0 THEN 0 - d.year ELSE d.year, 6))
  \o <<"-">> \o pad(d.month, 2) \o <<"-">> \o pad(d.day, 2)

\* new Date(): the day of the save
Now == [year |-> 2026, month |-> 1, day |-> 15]

\* new Date(d): the date strings of the model that parse, with their day
parseDate(d) ==
  CASE d = <<"2026-01-10">> -> [ok |-> TRUE, year |-> 2026, month |-> 1, day |-> 10]
    [] d = <<"Jan 10, 2026">> -> [ok |-> TRUE, year |-> 2026, month |-> 1, day |-> 10]
    [] d = <<"+010000-01-01">> -> [ok |-> TRUE, year |-> 10000, month |-> 1, day |-> 1]
    [] OTHER -> [ok |-> FALSE]

\* s.replace(/[^a-z0-9]+/g, '-')
hyphenate(s) ==
  Let(s, LAMBDA v :
    Let({i \in 1..Len(v) : v[i] \in AlnumAtoms \/ i = Len(v) \/ v[i + 1] \in AlnumAtoms},
        LAMBDA keep :
          [k \in 1..Cardinality(keep) |->
             IF v[nth(keep, k)] \in AlnumAtoms THEN v[nth(keep, k)] ELSE "-"]))

\* s.replace(/^-+|-+$/g, '')
trimHyphens(s) ==
  Let(s, LAMBDA v :
    Let({i \in 1..Len(v) : v[i] # "-"}, LAMBDA keep :
      IF keep = {} THEN <<>> ELSE SubSeq(v, Min(keep), Max(keep))))

substring(s, n) == Let(s, LAMBDA v : SubSeq(v, 1, IF Len(v) < n THEN Len(v) ELSE n))

generateSlug(title, url, datePublished) ==
  Let2(IF datePublished # Null /\ datePublished # <<>> THEN parseDate(datePublished)
       ELSE [ok |-> FALSE],
       parseUrl(url), LAMBDA parsedDate, parsed :
    toISODate(IF parsedDate.ok THEN parsedDate ELSE Now) \o <<"_">>
    \o substring(trimHyphens(hyphenate(toLowerCase(
         IF title # Null /\ title # <<>> THEN title
         ELSE IF parsed.ok
         THEN [i \in 1..Len(parsed.pathname) |->
                 IF parsed.pathname[i] = "/" THEN " " ELSE parsed.pathname[i]]
         ELSE <<"u", "n", "t", "i", "t", "l", "e", "d">>))), SlugTextMax))

(***************************************************************************)
(* popup.js: the messages the popup sends. buildAuthorData gives the       *)
(* author the selected topics, and the same list is sent as topics.        *)
(***************************************************************************)
NoAuthor ==
  [handle |-> Null, name |-> Null, profile_url |-> Null, url |-> Null, author |-> Null,
   source |-> Null, topics |-> <<>>, saved_posts |-> <<>>, saved_articles |-> <<>>]

buildAuthorData(platform, id, name, topics) ==
  CASE platform = "x" -> [NoAuthor EXCEPT !.handle = id, !.name = name, !.topics = topics]
    [] platform = "linkedin" -> [NoAuthor EXCEPT !.profile_url = id, !.name = name, !.topics = topics]
    [] platform = "substack" ->
         [NoAuthor EXCEPT !.url = id, !.name = name, !.author = <<"Dan">>, !.topics = topics]
    [] platform = "generic_web" ->
         [NoAuthor EXCEPT !.source = id, !.name = name, !.topics = topics]

buildContentData(url, title, datePublished, topics) ==
  [url |-> url, title |-> title, date_published |-> datePublished, topics |-> topics,
   date_saved |-> Null]

message(action, platform, id, name, content, topics) ==
  [action |-> action, platform |-> platform,
   authorData |-> buildAuthorData(platform, id, name, topics),
   contentData |-> content, topics |-> topics]

Https(host, rest) == <<"https:", "/", "/", host>> \o rest

SaveMessages ==
  { message("saveContent", "x", <<"Alice">>, <<"Alice">>,
            buildContentData(Https("x.com", <<"/", "Alice", "/", "status">>), Null, Null, <<"ml", "ai">>),
            <<"ml", "ai">>),
    message("saveContent", "x", <<"@", "alice">>, <<"Alice", " ", "A">>,
            buildContentData(Https("twitter.com", <<"/", "Alice", "/", "status", "/">>), Null, Null, <<"ai">>),
            <<"ai">>),
    message("saveContent", "x", <<"Bob">>, <<"Bob">>, NoContent, <<"dev", "ai">>),
    message("saveContent", "linkedin", Https("www.linkedin.com", <<"/", "in", "/", "Carol", "/">>),
            <<"Carol">>,
            buildContentData(Https("www.linkedin.com", <<"/", "posts", "/", "1">>), Null, Null, <<"ml">>),
            <<"ml">>),
    message("saveContent", "linkedin", Https("www.linkedin.com", <<"/", "in", "/", "carol">>),
            <<"Carol", " ", "C">>,
            buildContentData(Https("www.linkedin.com", <<"/", "posts", "/", "1", "?", "ref", "=", "b">>),
                             Null, Null, <<>>),
            <<>>),
    message("saveContent", "substack", Https("news.substack.com", <<>>), <<"News">>,
            buildContentData(Https("news.substack.com", <<"/", "p", "/", "one", "?", "utm_source", "=", "a">>),
                             <<"h", "i">>, <<"2026-01-10">>, <<"ai">>),
            <<"ai">>),
    message("saveContent", "substack", Https("News.substack.com", <<"/">>), <<"News">>,
            buildContentData(Https("news.substack.com", <<"/", "p", "/", "two">>),
                             <<"h", "i">>, <<"2026-01-10">>, <<"ml", "ai">>),
            <<"ml", "ai">>),
    message("saveContent", "generic_web", <<"Example">>, <<"Eve">>,
            buildContentData(Https("example.com", <<"/", "P">>), <<"H", "i", "!">>, Null, <<"dev">>),
            <<"dev">>),
    message("saveContent", "generic_web", <<"example">>, <<"eve">>,
            buildContentData(Https("example.com", <<"/", "p", "/">>), <<"h", "i">>, Null, <<"ai">>),
            <<"ai">>) }

\* a saveContent message whose platform is none of the four, as any extension page
\* can send it (the popup's detectPlatform never yields one)
UnknownPlatformMessages ==
  { [action |-> "saveContent", platform |-> "mastodon",
     authorData |-> [NoAuthor EXCEPT !.name = <<"Zed">>, !.topics = <<"ai">>],
     contentData |-> buildContentData(Https("example.com", <<"/", "p">>), Null, Null, <<"ai">>),
     topics |-> <<"ai">>] }

BookmarkMessages ==
  { message("saveBookmark", "generic_web", <<"Example">>, <<"Eve">>,
            buildContentData(Https("example.com", <<"/", "P">>), <<"H", "i", "!">>, <<"Jan 10, 2026">>, <<"dev">>),
            <<"dev">>),
    message("saveBookmark", "substack", Https("news.substack.com", <<>>), <<"News">>,
            buildContentData(Https("news.substack.com", <<"/", "p", "/", "one">>),
                             <<"h", "i">>, <<"2026-01-10">>, <<"ai">>),
            <<"ai">>),
    message("saveBookmark", "x", <<"Alice">>, <<"Alice">>,
            buildContentData(Https("x.com", <<"/", "Alice", "/", "status">>), Null, <<"n", "o">>, <<"ai">>),
            <<"ai">>) }

(***************************************************************************)
(* The state of the system: the KB file and the service worker.            *)
(***************************************************************************)
MaxOps == 2

Procs == {"h1", "h2"}
Platforms == {"x", "linkedin", "substack", "generic_web"}

\* the Index Document of ARCHITECTURE.md with no author and no topic
EmptyDoc == [favorite_authors |-> [pl \in Platforms |-> <<>>], topic_index |-> <<>>]

NoFile == [present |-> FALSE, data |-> EmptyDoc]
NoReq == [action |-> "none"]
NoResp == [success |-> FALSE, error |-> "none"]
NoResult == [sent |-> FALSE]

SysInit ==
  /\ disk = [complete |-> TRUE, data |-> EmptyDoc]
  /\ tmp = NoFile
  /\ wlock = "none"
  /\ folders = <<>>
  /\ kbCache = [set |-> FALSE]
  /\ pc = [p \in Procs |-> "idle"]
  /\ req = [p \in Procs |-> NoReq]
  /\ kb = [p \in Procs |-> EmptyDoc]
  /\ snap = [p \in Procs |-> EmptyDoc]
  /\ resp = [p \in Procs |-> NoResp]
  /\ result = [p \in Procs |-> NoResult]
  /\ cres = [p \in Procs |-> NoContentResult]
  /\ nOps = 0
  /\ sent = [p \in Procs |-> <<>>]
  /\ recentAdditions = <<>>

(***************************************************************************)
(* The native messaging host (native-host/kb_host.py), one process per     *)
(* message: read under a shared lock, write under an exclusive lock by     *)
(* temporary file and rename, create_bookmark by exclusive creation.       *)
(***************************************************************************)
\* the temporary sibling file is written; the KB file is not touched
writeTemp_inPlace(file, data) ==
  [disk |-> [complete |-> FALSE, data |-> data], tmp |-> [present |-> TRUE, data |-> data]]

writeTemp(file, data) ==
  [disk |-> file, tmp |-> [present |-> TRUE, data |-> data]]

\* rename(tmp, path): the KB file becomes the complete new document
renameTemp(t) == [complete |-> TRUE, data |-> t.data]

\* ensureDir / createExclusive of the bookmark folder: AlreadyExists when present
createBookmark_overwrite(fs, slug, content) ==
  [ok |-> TRUE, error |-> "none",
   folders |-> [x \in DOMAIN fs \cup {slug} |-> IF x = slug THEN content ELSE fs[x]]]

createBookmark(fs, slug, content) ==
  IF slug \in DOMAIN fs
  THEN [ok |-> FALSE, error |-> "AlreadyExists", folders |-> fs]
  ELSE [ok |-> TRUE, error |-> "none",
        folders |-> [x \in DOMAIN fs \cup {slug} |-> IF x = slug THEN content ELSE fs[x]]]

HostRead(p) ==
  /\ pc[p] = "read"
  /\ wlock = "none"
  /\ resp' = [resp EXCEPT ![p] = [success |-> TRUE, error |-> "none", data |-> disk.data,
                                  complete |-> disk.complete]]
  /\ snap' = [snap EXCEPT ![p] = disk.data]
  /\ pc' = [pc EXCEPT ![p] = "readResp"]
  /\ UNCHANGED <<disk, tmp, wlock, folders, kbCache, req, kb, result, cres, nOps, sent, recentAdditions, arg, ret>>

HostReadFail(p) ==
  /\ pc[p] = "read"
  /\ resp' = [resp EXCEPT ![p] = [success |-> FALSE, error |-> "NotReadable"]]
  /\ pc' = [pc EXCEPT ![p] = "readResp"]
  /\ UNCHANGED <<disk, tmp, wlock, folders, kbCache, req, kb, snap, result, cres, nOps, sent, recentAdditions, arg, ret>>

HostWriteBegin(p) ==
  /\ pc[p] = "write"
  /\ wlock = "none"
  /\ wlock' = p
  /\ \E w \in {writeTemp(disk, kb[p])} : disk' = w.disk /\ tmp' = w.tmp
  /\ pc' = [pc EXCEPT ![p] = "writing"]
  /\ UNCHANGED <<folders, kbCache, req, kb, snap, resp, result, cres, nOps, sent, recentAdditions, arg, ret>>

HostWriteRename(p) ==
  /\ pc[p] = "writing"
  /\ wlock = p
  /\ disk' = renameTemp(tmp)
  /\ tmp' = NoFile
  /\ wlock' = "none"
  /\ resp' = [resp EXCEPT ![p] = [success |-> TRUE, error |-> "none"]]
  /\ pc' = [pc EXCEPT ![p] = "writeResp"]
  /\ UNCHANGED <<folders, kbCache, req, kb, snap, result, cres, nOps, sent, recentAdditions, arg, ret>>

\* the host process dies after the temporary file is written and before the rename
HostWriteCrash(p) ==
  /\ pc[p] = "writing"
  /\ wlock = p
  /\ tmp' = NoFile
  /\ wlock' = "none"
  /\ resp' = [resp EXCEPT ![p] = [success |-> FALSE, error |-> "Native host has exited"]]
  /\ pc' = [pc EXCEPT ![p] = "writeResp"]
  /\ UNCHANGED <<disk, folders, kbCache, req, kb, snap, result, cres, nOps, sent, recentAdditions, arg, ret>>

\* the host answers the test message: the file is accessible
HostTest(p) ==
  /\ pc[p] = "test"
  /\ resp' = [resp EXCEPT ![p] = [success |-> TRUE, error |-> "none"]]
  /\ pc' = [pc EXCEPT ![p] = "testResp"]
  /\ UNCHANGED <<disk, tmp, wlock, folders, kbCache, req, kb, snap, result, cres, nOps, sent, recentAdditions, arg, ret>>

\* the host answers the test message with a failure, or dies before it answers
HostTestFail(p) ==
  /\ pc[p] = "test"
  /\ \E e \in {"NotFound", "Native host has exited"} :
       resp' = [resp EXCEPT ![p] = [success |-> FALSE, error |-> e]]
  /\ pc' = [pc EXCEPT ![p] = "testResp"]
  /\ UNCHANGED <<disk, tmp, wlock, folders, kbCache, req, kb, snap, result, cres, nOps, sent, recentAdditions, arg, ret>>

(***************************************************************************)
(* service-worker.js: the message handlers saveContent and saveBookmark.   *)
(***************************************************************************)
\* saveBookmark: the slug of the message
slugOf(m) ==
  LET c == m.contentData
      title == IF c.title # Null /\ c.title # <<>> THEN c.title
               ELSE <<"U", "n", "t", "i", "t", "l", "e", "d">>
      sourceUrl == IF c.url # Null THEN c.url ELSE <<>>
      datePublished == IF c.date_published # Null THEN c.date_published ELSE <<>>
  IN generateSlug(title, sourceUrl, datePublished)

failure_success(error) ==
  [sent |-> TRUE, success |-> TRUE, error |-> "none", authorAdded |-> FALSE,
   contentAdded |-> FALSE, contentDuplicate |-> FALSE, slug |-> <<>>]

failure(error) ==
  [sent |-> TRUE, success |-> FALSE, error |-> error, authorAdded |-> FALSE,
   contentAdded |-> FALSE, contentDuplicate |-> FALSE, slug |-> <<>>]

\* a response { success: true } with nothing else the model keeps
succeeded ==
  [sent |-> TRUE, success |-> TRUE, error |-> "none", authorAdded |-> FALSE,
   contentAdded |-> FALSE, contentDuplicate |-> FALSE, slug |-> <<>>]

\* the response of the readKB request
readResult(data) == [data |-> data] @@ succeeded

\* what saveToKB returns
saved(isNew, contentResult) ==
  [sent |-> TRUE, success |-> TRUE, error |-> "none", authorAdded |-> isNew,
   contentAdded |-> contentResult.success,
   contentDuplicate |-> (contentResult.reason = "duplicate"), slug |-> <<>>]

\* what saveBookmark returns once create_bookmark has succeeded
bookmarked(m) ==
  [sent |-> TRUE, success |-> TRUE, error |-> "none", authorAdded |-> FALSE,
   contentAdded |-> FALSE, contentDuplicate |-> FALSE, slug |-> slugOf(m)]

\* the response of the handler when saveToKB throws
saveFailed_swallow(m, error) == IF m.action = "saveBookmark" THEN bookmarked(m) ELSE succeeded

saveFailed_propagate(m, error) == failure(error)

saveFailed(m, error) == IF m.action = "saveBookmark" THEN bookmarked(m) ELSE failure(error)

\* the native message a handler sends first, as the pc value of waiting for the host
firstStep(m) ==
  CASE m.action = "saveBookmark" -> "create"
    [] m.action = "testConnection" -> "test"
    [] OTHER -> "read"

\* the action field of the native message sent on entering a pc value
nativeAction(step) ==
  CASE step = "create" -> "create_bookmark"
    [] step = "test" -> "test"
    [] step = "read" -> "read"
    [] step = "write" -> "write"

\* the bound of the list of recent additions
MaxRecent == 10

\* addToRecentAdditions: unshift(item), slice(0, 10). The read and the write of
\* chrome.storage.local are taken as one step.
addToRecentAdditions(recent, item) ==
  Let(<<item>> \o recent, LAMBDA list : SubSeq(list, 1, Min({Len(list), MaxRecent})))

\* the item the saveContent handler records
savedItem(m) == [platform |-> m.platform, url |-> m.contentData.url, slug |-> <<>>]

\* the item saveBookmark records
bookmarkItem(m) == [platform |-> m.platform, url |-> m.contentData.url, slug |-> slugOf(m)]

\* the list once saveToKB has returned (ok) or thrown: saveBookmark records its item
\* either way, the saveContent handler only after a saveToKB that returned
afterSave(recent, m, ok) ==
  IF m.action = "saveBookmark" THEN addToRecentAdditions(recent, bookmarkItem(m))
  ELSE IF m.action = "saveContent" /\ ok THEN addToRecentAdditions(recent, savedItem(m))
  ELSE recent

\* the messages of the readKB and testConnection requests
OtherMessages == {[action |-> "readKB"], [action |-> "testConnection"]}

Dispatch(p, m) ==
  /\ pc[p] \in {"idle", "done"}
  /\ nOps < MaxOps
  /\ nOps' = nOps + 1
  /\ req' = [req EXCEPT ![p] = [id |-> nOps + 1] @@ m]
  /\ pc' = [pc EXCEPT ![p] = firstStep(m)]
  /\ sent' = [sent EXCEPT ![p] = <<nativeAction(firstStep(m))>>]
  /\ kb' = [kb EXCEPT ![p] = EmptyDoc]
  /\ snap' = [snap EXCEPT ![p] = EmptyDoc]
  /\ resp' = [resp EXCEPT ![p] = NoResp]
  /\ result' = [result EXCEPT ![p] = NoResult]
  /\ cres' = [cres EXCEPT ![p] = NoContentResult]
  /\ UNCHANGED <<disk, tmp, wlock, folders, kbCache, recentAdditions, arg, ret>>

HostCreateBookmark(p) ==
  /\ pc[p] = "create"
  /\ \E c \in {createBookmark(folders, slugOf(req[p]),
                              [doc_id |-> slugOf(req[p]), source_url |-> req[p].contentData.url,
                               owner |-> req[p].id])} :
        /\ folders' = c.folders
        /\ resp' = [resp EXCEPT ![p] = [success |-> c.ok, error |-> c.error]]
  /\ pc' = [pc EXCEPT ![p] = "createResp"]
  /\ UNCHANGED <<disk, tmp, wlock, kbCache, req, kb, snap, result, cres, nOps, sent, recentAdditions, arg, ret>>

\* create_bookmark fails for another reason than an existing folder: no folder is
\* created
HostCreateFail(p) ==
  /\ pc[p] = "create"
  /\ resp' = [resp EXCEPT ![p] = [success |-> FALSE, error |-> "NotWritable"]]
  /\ pc' = [pc EXCEPT ![p] = "createResp"]
  /\ UNCHANGED <<disk, tmp, wlock, folders, kbCache, req, kb, snap, result, cres, nOps, sent,
                  recentAdditions, arg, ret>>

RecvCreate(p) ==
  /\ pc[p] = "createResp"
  /\ IF resp[p].success
     THEN /\ pc' = [pc EXCEPT ![p] = "read"]
          /\ sent' = [sent EXCEPT ![p] = Append(@, nativeAction("read"))]
          /\ UNCHANGED result
     ELSE /\ pc' = [pc EXCEPT ![p] = "done"]
          /\ result' = [result EXCEPT ![p] = failure(resp[p].error)]
          /\ UNCHANGED sent
  /\ UNCHANGED <<disk, tmp, wlock, folders, kbCache, req, kb, snap, resp, cres, nOps,
                  recentAdditions, arg, ret>>

\* readKB returns (or throws), and saveToKB runs up to the send of the write
RecvRead(p) ==
  /\ pc[p] = "readResp"
  /\ IF ~resp[p].success
     THEN /\ result' = [result EXCEPT ![p] = saveFailed(req[p], resp[p].error)]
          /\ recentAdditions' = afterSave(recentAdditions, req[p], FALSE)
          /\ pc' = [pc EXCEPT ![p] = "done"]
          /\ UNCHANGED <<kbCache, kb, cres, sent>>
     ELSE IF req[p].action = "readKB"
     THEN /\ kbCache' = [set |-> TRUE, data |-> resp[p].data]
          /\ result' = [result EXCEPT ![p] = readResult(resp[p].data)]
          /\ pc' = [pc EXCEPT ![p] = "done"]
          /\ UNCHANGED <<kb, cres, sent, recentAdditions>>
     ELSE \E m \in {mutateKB(resp[p].data, req[p].platform, req[p].authorData,
                               req[p].contentData, req[p].topics)} :
             /\ kbCache' = [set |-> TRUE, data |-> m.kb]
             /\ kb' = [kb EXCEPT ![p] = m.kb]
             /\ cres' = [cres EXCEPT ![p] = [isNew |-> m.isNew] @@ m.res]
             /\ IF m.threw
                THEN /\ result' = [result EXCEPT ![p] = saveFailed(req[p], "TypeError")]
                     /\ recentAdditions' = afterSave(recentAdditions, req[p], FALSE)
                     /\ pc' = [pc EXCEPT ![p] = "done"]
                     /\ UNCHANGED sent
                ELSE /\ pc' = [pc EXCEPT ![p] = "write"]
                     /\ sent' = [sent EXCEPT ![p] = Append(@, nativeAction("write"))]
                     /\ UNCHANGED <<result, recentAdditions>>
  /\ UNCHANGED <<disk, tmp, wlock, folders, req, snap, resp, nOps, arg, ret>>

\* writeKB returns (or throws), and saveToKB returns its result
RecvWrite(p) ==
  /\ pc[p] = "writeResp"
  /\ IF resp[p].success
     THEN /\ kbCache' = [set |-> TRUE, data |-> kb[p]]
          /\ result' = [result EXCEPT ![p] =
                          IF req[p].action = "saveBookmark" THEN bookmarked(req[p])
                          ELSE saved(cres[p].isNew, cres[p])]
     ELSE /\ result' = [result EXCEPT ![p] = saveFailed(req[p], resp[p].error)]
          /\ UNCHANGED kbCache
  /\ recentAdditions' = afterSave(recentAdditions, req[p], resp[p].success)
  /\ pc' = [pc EXCEPT ![p] = "done"]
  /\ UNCHANGED <<disk, tmp, wlock, folders, req, kb, snap, resp, cres, nOps, sent, arg, ret>>

\* testConnection returns the response of the host, or the handler catches the error
RecvTest(p) ==
  /\ pc[p] = "testResp"
  /\ result' = [result EXCEPT ![p] = IF resp[p].success THEN succeeded ELSE failure(resp[p].error)]
  /\ pc' = [pc EXCEPT ![p] = "done"]
  /\ UNCHANGED <<disk, tmp, wlock, folders, kbCache, req, kb, snap, resp, cres, nOps, sent, recentAdditions, arg, ret>>

Init ==
  /\ SysInit
  /\ arg = NoArg
  /\ ret = NoCall

Next ==
  \/ \E p \in Procs :
       \E m \in SaveMessages \cup UnknownPlatformMessages \cup BookmarkMessages \cup OtherMessages :
         Dispatch(p, m)
  \/ \E p \in Procs : HostRead(p)
  \/ \E p \in Procs : HostReadFail(p)
  \/ \E p \in Procs : RecvRead(p)
  \/ \E p \in Procs : HostWriteBegin(p)
  \/ \E p \in Procs : HostWriteRename(p)
  \/ \E p \in Procs : HostWriteCrash(p)
  \/ \E p \in Procs : RecvWrite(p)
  \/ \E p \in Procs : HostCreateBookmark(p)
  \/ \E p \in Procs : HostCreateFail(p)
  \/ \E p \in Procs : RecvCreate(p)
  \/ \E p \in Procs : HostTest(p)
  \/ \E p \in Procs : HostTestFail(p)
  \/ \E p \in Procs : RecvTest(p)

Spec == Init /\ [][Next]_vars

(***************************************************************************)
(* The normaliser specification: a pair is drawn, and the normalisers of   *)
(* the service worker and of utils/deduplication.js are applied to it.     *)
(***************************************************************************)
NormInit ==
  /\ SysInit
  /\ arg \in TrackingPairs \cup SlashPairs \cup HostFormPairs \cup HandlePairs
  /\ ret = NoCall

CallNormalizeUrl ==
  /\ arg.kind \in {"tracking", "slash", "host"}
  /\ ~ret.done
  /\ ret' = [done |-> TRUE,
             a |-> normalizeUrl(arg.u), b |-> normalizeUrl(arg.v),
             da |-> dedupNormalizeUrl(arg.u), db |-> dedupNormalizeUrl(arg.v)]
  /\ UNCHANGED <<arg, sysVars>>

CallNormalizeHandle ==
  /\ arg.kind = "handle"
  /\ ~ret.done
  /\ ret' = [done |-> TRUE,
             a |-> normalizeHandle(arg.u), b |-> normalizeHandle(arg.v),
             da |-> dedupNormalizeHandle(arg.u), db |-> dedupNormalizeHandle(arg.v)]
  /\ UNCHANGED <<arg, sysVars>>

NormNext == CallNormalizeUrl \/ CallNormalizeHandle

SpecNorm == NormInit /\ [][NormNext]_vars

\* C9: URLs that differ only by known tracking parameters, by a trailing slash or
\* by the x.com / twitter.com host form have the same normalizeUrl result.
C9_SameNormalizedUrl ==
  (ret.done /\ arg.kind \in {"tracking", "slash", "host"}) => ret.a = ret.b

\* C9, by kind of difference
C9_TrackingOnly == (ret.done /\ arg.kind = "tracking") => ret.a = ret.b
C9_SlashOnly == (ret.done /\ arg.kind = "slash") => ret.a = ret.b
C9_HostOnly == (ret.done /\ arg.kind = "host") => ret.a = ret.b
C9_Dedup == (ret.done /\ arg.kind \in {"tracking", "slash", "host"}) => ret.da = ret.db

\* C10: handles that differ only by a leading '@' or by letter case have the same
\* normalizeHandle result, in the service worker and in utils/deduplication.js.
C10_SameNormalizedHandle ==
  (ret.done /\ arg.kind = "handle") =>
     /\ ret.a = ret.b
     /\ ret.a # Throw
     /\ ret.da = ret.db

\* a pair differing both by the leading '@' and by letter case has been normalised
C10_Witness ==
  /\ ret.done
  /\ arg.kind = "handle"
  /\ arg.u[1] = "@"
  /\ arg.v[1] # "@"
  /\ handleName(arg.u) # handleName(arg.v)
  /\ ret.a = <<"alice">>

(***************************************************************************)
(* Properties of the documents: the KB file, each handler's document and   *)
(* the cached document.                                                    *)
(***************************************************************************)
Docs == {disk.data} \cup {kb[p] : p \in Procs} \cup (IF kbCache.set THEN {kbCache.data} ELSE {})

\* the normalized identity of an author record, by platform
authorIdentity(platform, author) ==
  CASE platform = "x" -> normalizeHandle(author.handle)
    [] platform = "linkedin" -> normalizeUrl(author.profile_url)
    [] platform = "substack" -> normalizeUrl(author.url)
    [] platform = "generic_web" -> <<optLower(author.name), optLower(author.source)>>

\* the raw identifier of an author record, as one value
rawIdentity(platform, author) ==
  IF platform = "generic_web" THEN <<author.name, author.source>>
  ELSE getAuthorIdentifier(platform, author)

uniqueAuthors(doc) ==
  \A pl \in Platforms :
    \A i, j \in 1..Len(doc.favorite_authors[pl]) :
      i < j => authorIdentity(pl, doc.favorite_authors[pl][i])
               # authorIdentity(pl, doc.favorite_authors[pl][j])

\* C1: no list favorite_authors[platform] of a document holds two author records of
\* equal normalized identity, after any sequence of saves from the empty document.
C1_AuthorIdentityUnique == \A doc \in Docs : uniqueAuthors(doc)

\* a save has found, in the document on disk, the author it names under another
\* spelling of the same identity, and has been written without adding an author
C1_Witness ==
  \E p \in Procs :
    /\ pc[p] = "done"
    /\ result[p].success
    /\ req[p].action = "saveContent"
    /\ ~result[p].authorAdded
    /\ disk.data = kb[p]
    /\ \E i \in 1..Len(disk.data.favorite_authors[req[p].platform]) :
         /\ rawIdentity(req[p].platform, disk.data.favorite_authors[req[p].platform][i])
            # rawIdentity(req[p].platform, req[p].authorData)
         /\ authorIdentity(req[p].platform, disk.data.favorite_authors[req[p].platform][i])
            = authorIdentity(req[p].platform, req[p].authorData)

uniqueContent(doc) ==
  \A pl \in Platforms :
    \A a \in 1..Len(doc.favorite_authors[pl]) :
      \A i, j \in 1..Len(doc.favorite_authors[pl][a][contentKey(pl)]) :
        i < j => normalizeUrl(doc.favorite_authors[pl][a][contentKey(pl)][i].url)
                 # normalizeUrl(doc.favorite_authors[pl][a][contentKey(pl)][j].url)

\* C2: no two items of an author's owned content list (saved_posts for x and linkedin,
\* saved_articles for substack and generic_web) have URLs of equal normalizeUrl result.
C2_ContentIdentityUnique == \A doc \in Docs : uniqueContent(doc)

\* the author's content list of the document a handler read, and of the one it built
authorAt(doc, platform, authorData) ==
  Let(findAuthor(doc, platform, getAuthorIdentifier(platform, authorData)), LAMBDA i :
    IF i > 0 THEN doc.favorite_authors[platform][i]
    ELSE [NoAuthor EXCEPT !.handle = <<"<none>">>])

contentOf(doc, m) == authorAt(doc, m.platform, m.authorData)[contentKey(m.platform)]

\* saveToKB has run its synchronous part on a message of one of the four platforms
\* that carries content
Mutated(p) ==
  /\ pc[p] \in {"write", "writing", "writeResp"}
  /\ req[p].platform \in Platforms
  /\ req[p].contentData # NoContent

hadContent(p) == contentExists(authorAt(snap[p], req[p].platform, req[p].authorData),
                               req[p].contentData.url, req[p].platform)

\* a save has met, under its author, an item of another spelling of its URL
C2_Witness ==
  \E p \in Procs :
    /\ Mutated(p)
    /\ hadContent(p)
    /\ \A i \in 1..Len(contentOf(snap[p], req[p])) :
         contentOf(snap[p], req[p])[i].url # req[p].contentData.url
    /\ Len(contentOf(kb[p], req[p])) = 1

\* C3: the first addContent of a normalized URL under an author appends the item and
\* reports it added; a second one returns reason 'duplicate' and leaves the content
\* list unchanged; either way exactly one item of that URL is stored, and the
\* saveToKB of a duplicate completes with success, contentAdded false and
\* contentDuplicate true.
C3_DuplicateIsNormalOutcome ==
  \A p \in Procs :
    /\ Mutated(p) =>
         /\ hadContent(p) =>
              /\ cres[p].success = FALSE
              /\ cres[p].reason = "duplicate"
              /\ contentOf(kb[p], req[p]) = contentOf(snap[p], req[p])
         /\ ~hadContent(p) =>
              /\ cres[p].success = TRUE
              /\ cres[p].reason = "null"
              /\ Len(contentOf(kb[p], req[p])) = Len(contentOf(snap[p], req[p])) + 1
              /\ SubSeq(contentOf(kb[p], req[p]), 1, Len(contentOf(snap[p], req[p])))
                 = contentOf(snap[p], req[p])
              /\ contentOf(kb[p], req[p])[Len(contentOf(kb[p], req[p]))].url
                 = req[p].contentData.url
         /\ Cardinality({i \in 1..Len(contentOf(kb[p], req[p])) :
                           normalizeUrl(contentOf(kb[p], req[p])[i].url)
                           = normalizeUrl(req[p].contentData.url)}) = 1
    /\ (/\ pc[p] = "done"
        /\ req[p].action = "saveContent"
        /\ resp[p].success
        /\ cres[p].reason = "duplicate") =>
         /\ result[p].success = TRUE
         /\ result[p].contentAdded = FALSE
         /\ result[p].contentDuplicate = TRUE

\* the second save of a URL under an author has completed as a duplicate, the item of
\* the first save being the only one on disk
C3_Witness ==
  \E p \in Procs :
    /\ pc[p] = "done"
    /\ req[p].action = "saveContent"
    /\ req[p].id = 2
    /\ result[p].success
    /\ result[p].contentDuplicate
    /\ ~result[p].contentAdded
    /\ Len(contentOf(disk.data, req[p])) = 1

(***************************************************************************)
(* Properties of the file access: locking, atomic write, exclusive         *)
(* creation of a bookmark folder.                                          *)
(***************************************************************************)
\* the handler has read the document and its write has neither completed nor failed
InCycle(p) ==
  \/ pc[p] = "readResp" /\ resp[p].success
  \/ pc[p] \in {"write", "writing"}

\* C4: at most one operation is inside its read-mutate-write cycle at any time, so
\* no save reads the document between another save's read and that save's write.
C4_OneInCycle == \A p, q \in Procs : (InCycle(p) /\ InCycle(q)) => p = q

\* C5: a reader observes a complete document, the one on disk, which is never partial;
\* the write of the temporary file and a crash before the rename leave the KB file as
\* it was; the rename installs the complete new document.
C5_AtomicWrite ==
  /\ [](disk.complete /\ \A p \in Procs : (pc[p] = "readResp" /\ resp[p].success) => resp[p].complete)
  /\ [][\A p \in Procs :
          /\ (HostWriteBegin(p) \/ HostWriteCrash(p)) => disk' = disk
          /\ HostRead(p) => resp'[p].data = disk.data
          /\ HostWriteRename(p) => disk' = [complete |-> TRUE, data |-> kb[p]]]_vars

\* a host process has died between the write of the temporary file and the rename,
\* with a document that differs from the one on disk
C5_Witness ==
  \E p \in Procs :
    /\ pc[p] = "writeResp"
    /\ ~resp[p].success
    /\ tmp = NoFile
    /\ disk.data # kb[p]
    /\ disk.data # EmptyDoc

\* the saveBookmark of the handler has sent create_bookmark and the host has answered
\* from its exclusive creation of the folder
Created(p) ==
  /\ req[p].action = "saveBookmark"
  /\ pc[p] \notin {"idle", "create"}
  /\ resp[p].error # "NotWritable"

Won(p) ==
  /\ slugOf(req[p]) \in DOMAIN folders
  /\ folders[slugOf(req[p])].owner = req[p].id

\* C6: of the invocations that create a bookmark folder of one slug exactly one
\* succeeds; every other one observes AlreadyExists and its saveBookmark returns a
\* failure; a folder that exists is never overwritten.
C6_ExclusiveBookmarkCreation ==
  /\ [](\A p \in Procs : Created(p) =>
          /\ slugOf(req[p]) \in DOMAIN folders
          /\ Won(p) =>
               /\ pc[p] = "createResp" => resp[p].success
               /\ pc[p] = "done" => (result[p].success /\ result[p].slug = slugOf(req[p]))
          /\ ~Won(p) =>
               /\ pc[p] \in {"createResp", "done"}
               /\ pc[p] = "createResp" => resp[p] = [success |-> FALSE, error |-> "AlreadyExists"]
               /\ pc[p] = "done" => result[p] = failure("AlreadyExists"))
  /\ [][\A slug \in DOMAIN folders : slug \in DOMAIN folders' /\ folders'[slug] = folders[slug]]_vars

\* two saveBookmark handlers of one slug are under way: one has created the folder and
\* is still running, the other one has returned the failure AlreadyExists
C6_Witness ==
  \E p, q \in Procs :
    /\ p # q
    /\ Created(p) /\ Created(q)
    /\ slugOf(req[p]) = slugOf(req[q])
    /\ req[p].contentData.url # req[q].contentData.url
    /\ Won(p) /\ pc[p] # "done"
    /\ ~Won(q) /\ pc[q] = "done" /\ result[q] = failure("AlreadyExists")

(***************************************************************************)
(* The topic index specification: a document, a topic list and an author   *)
(* reference are drawn, and updateTopicIndex is applied once and again.    *)
(***************************************************************************)
MaxRefs == 2
MaxTopics == 2

TopicNames == {"ai", "dev", "ml"}
IndexedTopics == {"ai", "ml"}
IndexedRefs == {<<"@", "Alice">>, <<"Carol">>}
AuthorRefs == IndexedRefs \cup {Null}

\* the sequences over S of length at most n
RECURSIVE SeqsUpTo(_, _)
SeqsUpTo(S, n) ==
  IF n = 0 THEN {<<>>}
  ELSE Let(SeqsUpTo(S, n - 1), LAMBDA shorter :
         shorter \cup {Append(q, x) : q \in {r \in shorter : Len(r) = n - 1}, x \in S})

\* the topic indexes of at most MaxTopics keys, in any key order, with reference
\* lists in any order and with repetitions (a hand-edited KB file)
TopicIndexes ==
  {ix \in SeqsUpTo([key : IndexedTopics, refs : SeqsUpTo(IndexedRefs, MaxRefs)], MaxTopics) :
     \A i, j \in 1..Len(ix) : i < j => ix[i].key # ix[j].key}

TopicArgs ==
  {[kind |-> "topic", doc |-> [EmptyDoc EXCEPT !.topic_index = ix], topics |-> ts, ref |-> r] :
     ix \in TopicIndexes, ts \in SeqsUpTo(TopicNames, MaxTopics) \ {<<>>},
     r \in AuthorRefs}

TopicInit ==
  /\ SysInit
  /\ arg \in TopicArgs
  /\ ret = NoCall

CallUpdateTopicIndex ==
  /\ ~ret.done
  /\ ret' = [done |-> TRUE, calls |-> 1, before |-> arg.doc,
             doc |-> updateTopicIndex(arg.doc, arg.topics, arg.ref)]
  /\ UNCHANGED <<arg, sysVars>>

CallUpdateTopicIndexAgain ==
  /\ ret.done
  /\ ret.calls = 1
  /\ ret' = [done |-> TRUE, calls |-> 2, before |-> ret.doc,
             doc |-> updateTopicIndex(ret.doc, arg.topics, arg.ref)]
  /\ UNCHANGED <<arg, sysVars>>

TopicNext == CallUpdateTopicIndex \/ CallUpdateTopicIndexAgain

SpecTopic == TopicInit /\ [][TopicNext]_vars

\* the keys are in strictly increasing order
sortedKeys(index) ==
  \A i, j \in 1..Len(index) : i < j => lessStr(<<index[i].key>>, <<index[j].key>>)

\* every reference list is in strictly increasing order: sorted, with no duplicate
sortedRefs(index) ==
  \A k \in 1..Len(index) :
    \A i, j \in 1..Len(index[k].refs) : i < j => lessStr(index[k].refs[i], index[k].refs[j])

C7_Preserved ==
  (ret.done /\ sortedKeys(ret.before.topic_index) /\ sortedRefs(ret.before.topic_index)) =>
     (sortedKeys(ret.doc.topic_index) /\ sortedRefs(ret.doc.topic_index))

\* C8: applying updateTopicIndex(topics, authorRef) a second time yields the document
\* the first application yielded.
C8_UpdateTopicIndexIdempotent ==
  (ret.done /\ ret.calls = 2) => ret.doc = ret.before

\* the second application has run on a document that the first one changed, in which
\* the first one added a reference to a list that holds other ones and added a key
C8_Witness ==
  /\ ret.done
  /\ ret.calls = 2
  /\ ret.doc # arg.doc
  /\ Len(ret.doc.topic_index) > Len(arg.doc.topic_index)
  /\ \E k \in 1..Len(ret.doc.topic_index) : Len(ret.doc.topic_index[k].refs) = MaxRefs + 1

(***************************************************************************)
(* The author specification: a document with up to MaxAuthors authors on a *)
(* platform and an incoming author are drawn, and addOrUpdateAuthor is     *)
(* applied.                                                                *)
(***************************************************************************)
MaxAuthors == 2

TopicLists == {<<>>, <<"ai">>, <<"ml", "ai">>, <<"dev", "ml">>}

\* the author identifiers of a platform, with their spelling variants
AuthorIds(platform) ==
  CASE platform = "x" -> {<<"Alice">>, <<"@", "alice">>, <<"Bob">>}
    [] platform = "linkedin" ->
         {Https("www.linkedin.com", <<"/", "in", "/", "Carol", "/">>),
          Https("www.linkedin.com", <<"/", "in", "/", "carol">>),
          Https("www.linkedin.com", <<"/", "in", "/", "Bob">>)}
    [] platform = "substack" ->
         {Https("news.substack.com", <<>>), Https("News.substack.com", <<"/">>),
          Https("eve.substack.com", <<>>)}
    [] platform = "generic_web" -> {<<"Example">>, <<"example">>, <<"News">>}

AuthorPool(platform) ==
  {buildAuthorData(platform, id, <<"Eve">>, ts) : id \in AuthorIds(platform), ts \in TopicLists}

AuthorArgs ==
  UNION {
    {[kind |-> "author", platform |-> pl,
      doc |-> [EmptyDoc EXCEPT !.favorite_authors[pl] = authors], authorData |-> a] :
       authors \in {l \in SeqsUpTo(AuthorPool(pl), MaxAuthors) :
                       \A i, j \in 1..Len(l) :
                         i < j => authorIdentity(pl, l[i]) # authorIdentity(pl, l[j])},
       a \in AuthorPool(pl)} : pl \in Platforms}

AuthorInit ==
  /\ SysInit
  /\ arg \in AuthorArgs
  /\ ret = NoCall

CallAddOrUpdateAuthor ==
  /\ ~ret.done
  /\ ret' = [done |-> TRUE, out |-> addOrUpdateAuthor(arg.doc, arg.platform, arg.authorData)]
  /\ UNCHANGED <<arg, sysVars>>

AuthorNext == CallAddOrUpdateAuthor

SpecAuthor == AuthorInit /\ [][AuthorNext]_vars

\* the positions of the authors of the list that have the identity of the incoming one
sameIdentity(platform, authors, authorData) ==
  {i \in 1..Len(authors) :
     authorIdentity(platform, authors[i]) = authorIdentity(platform, authorData)}

\* C11: when an author of the same normalized identity exists, addOrUpdateAuthor
\* returns isNew false, that author's topics become its previous topics followed by
\* the incoming ones it did not have, and nothing else of the list changes; when
\* none exists, it returns isNew true and appends the incoming author at the end of
\* the list. The lists of the other platforms and the topic index are not touched.
C11_AddOrUpdateAuthor ==
  ret.done =>
    LET before == arg.doc.favorite_authors[arg.platform]
        after == ret.out.kb.favorite_authors[arg.platform]
        found == sameIdentity(arg.platform, before, arg.authorData)
    IN /\ ~ret.out.threw
       /\ \A pl \in Platforms \ {arg.platform} :
            ret.out.kb.favorite_authors[pl] = arg.doc.favorite_authors[pl]
       /\ ret.out.kb.topic_index = arg.doc.topic_index
       /\ found # {} =>
            /\ ret.out.isNew = FALSE
            /\ ret.out.idx \in found
            /\ Len(after) = Len(before)
            /\ \A i \in 1..Len(before) :
                 IF i \in found
                 THEN /\ after[i] = [before[i] EXCEPT !.topics = after[i].topics]
                      /\ elems(after[i].topics)
                         = elems(before[i].topics) \cup elems(arg.authorData.topics)
                      /\ SubSeq(after[i].topics, 1, Len(before[i].topics)) = before[i].topics
                      /\ Len(after[i].topics) = Cardinality(elems(after[i].topics))
                 ELSE after[i] = before[i]
       /\ found = {} =>
            /\ ret.out.isNew = TRUE
            /\ ret.out.idx = Len(before) + 1
            /\ after = Append(before, arg.authorData)

\* an author found under another spelling, second of two, has gained a topic and
\* kept the ones it had
C11_Witness ==
  /\ ret.done
  /\ ~ret.out.isNew
  /\ ret.out.idx = 2
  /\ rawIdentity(arg.platform, arg.doc.favorite_authors[arg.platform][2])
     # rawIdentity(arg.platform, arg.authorData)
  /\ Len(ret.out.kb.favorite_authors[arg.platform][2].topics) = 3
  /\ Len(arg.doc.favorite_authors[arg.platform][2].topics) = 2

(***************************************************************************)
(* service-worker.js: what the checkDuplicate and getTopics requests       *)
(* compute from the document they are given (kbCache when it is set).      *)
(***************************************************************************)
\* the elements of a set of atoms as a sorted list
sortedList(S) ==
  Let(S, LAMBDA T :
    [k \in 1..Cardinality(T) |->
       CHOOSE t \in T : Cardinality({u \in T : lessStr(<<u>>, <<t>>)}) = k - 1])

\* the topics of the saved items of a list of authors
contentTopics(authors) ==
  UNION {UNION {elems(c.topics) :
                  c \in elems(IF authors[i].saved_posts # <<>> THEN authors[i].saved_posts
                              ELSE authors[i].saved_articles)} : i \in 1..Len(authors)}

getExistingTopics(kbDoc) ==
  sortedList({kbDoc.topic_index[i].key : i \in 1..Len(kbDoc.topic_index)}
             \cup UNION {UNION {elems(kbDoc.favorite_authors[pl][i].topics) :
                                  i \in 1..Len(kbDoc.favorite_authors[pl])} :
                           pl \in DOMAIN kbDoc.favorite_authors}
             \cup UNION {contentTopics(kbDoc.favorite_authors[pl]) :
                           pl \in DOMAIN kbDoc.favorite_authors})

\* the response of the checkDuplicate request, computed on currentKB
checkDuplicate(currentKB, platform, authorIdentifier, url) ==
  Let(findAuthor(currentKB, platform, authorIdentifier), LAMBDA i :
    IF i <= 0 THEN [authorExists |-> FALSE, contentExists |-> FALSE]
    ELSE [authorExists |-> TRUE,
          contentExists |-> contentExists(currentKB.favorite_authors[platform][i], url, platform)])

(***************************************************************************)
(* Properties of the saves: platforms, failures, bookmarks.                *)
(***************************************************************************)
\* C12: a save whose platform is none of x, linkedin, substack, generic_web ends
\* with a failure, which is UnknownPlatform unless the read of the document failed,
\* and the document on disk holds no author under a platform that is none of the four.
C12_UnknownPlatformRejected ==
  /\ \A p \in Procs :
       (req[p].action = "saveContent" /\ req[p].platform \notin Platforms /\ pc[p] = "done")
         => /\ ~result[p].success
            /\ resp[p].success => result[p].error = "UnknownPlatform"
  /\ \A pl \in DOMAIN disk.data.favorite_authors \ Platforms :
       disk.data.favorite_authors[pl] = <<>>

\* the write of the save of the handler has failed, and no other handler is running
WriteFailed(p) ==
  /\ pc[p] = "done"
  /\ req[p].action = "saveContent"
  /\ resp[p] = [success |-> FALSE, error |-> "Native host has exited"]
  /\ \A q \in Procs \ {p} : pc[q] \in {"idle", "done"}

\* C13: after a save whose write failed, the cached document answers checkDuplicate
\* and getTopics with nothing that is not on disk: neither the author, nor the
\* item, nor a topic of the failed save.
C13_FailedWriteNotCached ==
  \A p \in Procs :
    (WriteFailed(p) /\ kbCache.set) =>
      LET id == getAuthorIdentifier(req[p].platform, req[p].authorData)
          cached == checkDuplicate(kbCache.data, req[p].platform, id, req[p].contentData.url)
          onDisk == checkDuplicate(disk.data, req[p].platform, id, req[p].contentData.url)
      IN /\ cached.authorExists => onDisk.authorExists
         /\ cached.contentExists => onDisk.contentExists
         /\ elems(getExistingTopics(kbCache.data)) \cap elems(req[p].topics)
            \subseteq elems(getExistingTopics(disk.data))

\* the last answer of the host to the handler is a failure (a failed response or
\* a transport error)
HostFailed(p) ==
  /\ pc[p] = "done"
  /\ req[p].action \in {"readKB", "saveContent", "testConnection"}
  /\ ~resp[p].success

\* C14: a handler sends no native message twice (one read, one write, one test at
\* most per operation), and when the host's answer to readKB, saveContent or
\* testConnection is a failure, the caller gets a failed response with its error text.
C14_FailuresSurfacedNotRetried ==
  \A p \in Procs :
    /\ \A i, j \in DOMAIN sent[p] : sent[p][i] = sent[p][j] => i = j
    /\ HostFailed(p) =>
         /\ result[p] = failure(resp[p].error)
         /\ resp[p].error # "none"

\* a save whose write failed after its read succeeded, and a failed test
C14_Witness ==
  \E p, q \in Procs :
    /\ HostFailed(p) /\ req[p].action = "saveContent" /\ sent[p] = <<"read", "write">>
    /\ HostFailed(q) /\ req[q].action = "testConnection" /\ sent[q] = <<"test">>
    /\ ~result[p].success /\ ~result[q].success

\* saveBookmark has created its folder, and the read or the write of its index
\* update (saveToKB) has failed
IndexUpdateFailed(p) ==
  /\ pc[p] = "done"
  /\ req[p].action = "saveBookmark"
  /\ Won(p)
  /\ ~resp[p].success

\* C15: once create_bookmark has succeeded, a failure of the index update neither
\* fails the save nor removes the bookmark: the response is a success with the slug,
\* and the folder of the slug is still the one this save created.
C15_BookmarkSurvivesIndexFailure ==
  \A p \in Procs :
    IndexUpdateFailed(p) =>
      /\ result[p].success
      /\ result[p].slug = slugOf(req[p])
      /\ folders[result[p].slug].source_url = req[p].contentData.url

\* the write of the index update has failed after the folder was created
C15_Witness ==
  \E p \in Procs :
    /\ IndexUpdateFailed(p)
    /\ sent[p] = <<"create_bookmark", "read", "write">>
    /\ result[p] = bookmarked(req[p])
    /\ disk.data = EmptyDoc

\* the Index Document on disk registers the item of the message of the handler
Registered(p) ==
  contentExists(authorAt(disk.data, req[p].platform, req[p].authorData),
                req[p].contentData.url, req[p].platform)

\* the handler has completed a save of a bookmark that an earlier save, completed
\* before this one began, had already committed (same slug, same source URL)
Resaved(p) ==
  /\ pc[p] = "done"
  /\ req[p].action = "saveBookmark"
  /\ ~Won(p)
  /\ slugOf(req[p]) \in DOMAIN folders
  /\ folders[slugOf(req[p])].source_url = req[p].contentData.url
  /\ \A q \in Procs \ {p} : pc[q] = "idle"

\* C16: once the user has saved again a bookmark that is committed, the Index Document
\* registers its item, unless the host failed to read or write the KB file during
\* that second save.
C16_ResaveRegistersItem ==
  \A p \in Procs :
    (Resaved(p) /\ resp[p].error \notin {"NotReadable", "NotWritable", "Native host has exited"})
      => Registered(p)

(***************************************************************************)
(* The slug specification: a title, a URL and a published date are drawn,  *)
(* and generateSlug is applied.                                            *)
(***************************************************************************)
MaxTitle == 3

TitleChars == {"H", "i", "!", " ", "1"}

\* a title longer than the text of a slug can be
LongTitle == [i \in 1..(SlugTextMax + 5) |-> IF i % 7 = 0 THEN " " ELSE "a"]

SlugTitles == UNION {[1..n -> TitleChars] : n \in 0..MaxTitle} \cup {Null, LongTitle}

SlugUrls ==
  {Null, <<>>, <<"n", "o">>, Https("example.com", <<>>), Https("example.com", <<"/">>),
   Https("example.com", <<"/", "a", "/", "P", "1">>)}

SlugDates == {Null, <<>>, <<"n", "o">>, <<"2026-01-10">>, <<"Jan 10, 2026">>, <<"+010000-01-01">>}

SlugInit ==
  /\ SysInit
  /\ arg \in [title : SlugTitles, url : SlugUrls, datePublished : SlugDates]
  /\ ret = NoCall

CallGenerateSlug ==
  /\ ~ret.done
  /\ ret' = [done |-> TRUE, out |-> generateSlug(arg.title, arg.url, arg.datePublished)]
  /\ UNCHANGED <<sysVars, arg>>

SlugNext == CallGenerateSlug

SpecSlug == SlugInit /\ [][SlugNext]_vars

\* the characters of a YYYY-MM-DD date
isDate(s) ==
  /\ Len(s) = 10
  /\ \A i \in {1, 2, 3, 4, 6, 7, 9, 10} : s[i] \in elems(Digits)
  /\ s[5] = "-" /\ s[8] = "-"

\* C17: every slug generateSlug returns is a YYYY-MM-DD date, an underscore and a
\* text, is at most 100 characters long, and has no character but a-z, 0-9, '-', '_'.
C17_SlugForm ==
  ret.done =>
    /\ Len(ret.out) >= 11
    /\ isDate(SubSeq(ret.out, 1, 10))
    /\ ret.out[11] = "_"
    /\ Len(ret.out) <= 100
    /\ \A i \in DOMAIN ret.out : ret.out[i] \in AlnumAtoms \cup {"-", "_"}

\* what holds of every slug: a date as toISOString writes it, an underscore, and a
\* text of at most SlugTextMax characters a-z, 0-9 and '-' that does not begin with '-'
SlugShape ==
  ret.done =>
    \E n \in {10, 13} :
      /\ Len(ret.out) >= n + 1
      /\ isDate(SubSeq(ret.out, n - 9, n))
      /\ n = 13 => (ret.out[1] = "+" /\ arg.datePublished = <<"+010000-01-01">>)
      /\ ret.out[n + 1] = "_"
      /\ Len(ret.out) - (n + 1) <= SlugTextMax
      /\ \A i \in (n + 2)..Len(ret.out) : ret.out[i] \in AlnumAtoms \cup {"-"}
      /\ Len(ret.out) > n + 1 => ret.out[n + 2] # "-"

\* the text a string gives to a slug: lower case, runs of other characters than
\* a-z and 0-9 turned into one hyphen, no hyphen at either end, SlugTextMax characters
textOf(s) ==
  IF s = Null THEN <<>>
  ELSE substring(trimHyphens(hyphenate(toLowerCase(s))), SlugTextMax)

\* the text the path of a URL gives to a slug, none when the URL does not parse
pathTextOf(url) ==
  Let(parseUrl(url), LAMBDA parsed : IF parsed.ok THEN textOf(parsed.pathname) ELSE <<>>)

\* C18: the date of the slug is the published date when it parses and the day of the
\* save otherwise; the text of the slug is that of the title, that of the URL path
\* when the title gives none, and the placeholder 'untitled' when the path gives none.
C18_SlugSources ==
  ret.done =>
    ret.out =
      toISODate(IF arg.datePublished # Null /\ parseDate(arg.datePublished).ok
                THEN parseDate(arg.datePublished) ELSE Now)
      \o <<"_">>
      \o (IF textOf(arg.title) # <<>> THEN textOf(arg.title)
          ELSE IF pathTextOf(arg.url) # <<>> THEN pathTextOf(arg.url)
          ELSE <<"u", "n", "t", "i", "t", "l", "e", "d">>)

\* the date of the slug alone: the published date when it parses, else the day of the save
SlugDateSource ==
  ret.done =>
    \E d \in {toISODate(IF arg.datePublished # Null /\ parseDate(arg.datePublished).ok
                        THEN parseDate(arg.datePublished) ELSE Now)} :
      SubSeq(ret.out, 1, Len(d) + 1) = d \o <<"_">>

\* two spellings of one URL: equal up to letter case and trailing slashes
sameSpelling(u, v) ==
  toLowerCase(stripTrailingSlashes(u)) = toLowerCase(stripTrailingSlashes(v))

\* the authors of the linkedin list of a document whose profile_url is a spelling of u
profiles(doc, u) ==
  {i \in 1..Len(doc.favorite_authors["linkedin"]) :
     sameSpelling(doc.favorite_authors["linkedin"][i].profile_url, u)}

\* a linkedin save has completed, and the document it read held the author under
\* another spelling of the profile_url
SavedAgain(p) ==
  /\ pc[p] = "done"
  /\ req[p].action = "saveContent"
  /\ req[p].platform = "linkedin"
  /\ result[p].success
  /\ profiles(snap[p], req[p].authorData.profile_url) # {}
  /\ \A i \in profiles(snap[p], req[p].authorData.profile_url) :
       snap[p].favorite_authors["linkedin"][i].profile_url # req[p].authorData.profile_url

\* C19: a save of a linkedin profile_url that the document holds in another letter
\* case or with another trailing slash reports authorAdded false and leaves one
\* author of that profile_url, the list of linkedin authors keeping its length.
C19_LinkedinSavedTwice ==
  \A p \in Procs :
    SavedAgain(p) =>
      /\ ~result[p].authorAdded
      /\ Cardinality(profiles(kb[p], req[p].authorData.profile_url)) = 1
      /\ Len(kb[p].favorite_authors["linkedin"]) = Len(snap[p].favorite_authors["linkedin"])

\* the second of two saves has completed, and the document on disk is the one it wrote
C19_Witness ==
  \E p \in Procs :
    /\ SavedAgain(p)
    /\ req[p].id = 2
    /\ disk.data = kb[p]
    /\ Cardinality(profiles(disk.data, req[p].authorData.profile_url)) = 1
    /\ ~result[p].authorAdded

(***************************************************************************)
(* service-worker.js: detectPlatform. Host names are strings of            *)
(* one-character atoms, so that includes() searches characters.            *)
(***************************************************************************)
Thrown == "<throw>"

\* String.prototype.includes
includesStr(s, t) == \E i \in 0..(Len(s) - Len(t)) : SubSeq(s, i + 1, i + Len(t)) = t

\* new URL(url).hostname of a URL whose host is written character by character
hostnameOf(url0) ==
  Let(url0, LAMBDA url :
    IF url = Null \/ Len(url) < 4 \/ url[1] \notin Schemes \/ url[2] # "/" \/ url[3] # "/"
       \/ url[4] \in Delims
    THEN <<>>
    ELSE Let(SubSeq(url, 4, Len(url)), LAMBDA rest :
           SubSeq(rest, 1, Min({firstIndex(rest, "/"), firstIndex(rest, "?"),
                                firstIndex(rest, "#")}) - 1)))

TwitterCom == <<"t", "w", "i", "t", "t", "e", "r", ".", "c", "o", "m">>
XCom == <<"x", ".", "c", "o", "m">>
LinkedinCom == <<"l", "i", "n", "k", "e", "d", "i", "n", ".", "c", "o", "m">>
SubstackCom == <<"s", "u", "b", "s", "t", "a", "c", "k", ".", "c", "o", "m">>

detectPlatform(url) ==
  Let(toLowerCase(hostnameOf(url)), LAMBDA hostname :
    IF hostname = <<>> THEN Thrown
    ELSE IF includesStr(hostname, TwitterCom) \/ includesStr(hostname, XCom) THEN "x"
    ELSE IF includesStr(hostname, LinkedinCom) THEN "linkedin"
    ELSE IF includesStr(hostname, SubstackCom) THEN "substack"
    ELSE "generic_web")

(***************************************************************************)
(* The platform specification: a URL is drawn, and detectPlatform is       *)
(* applied.                                                                *)
(***************************************************************************)
MaxLabels == 2

HostLabels ==
  {<<"x">>, <<"X">>, <<"t", "w", "i", "t", "t", "e", "r">>,
   <<"l", "i", "n", "k", "e", "d", "i", "n">>, <<"s", "u", "b", "s", "t", "a", "c", "k">>,
   <<"n", "e", "t", "f", "l", "i", "x">>, <<"n", "e", "w", "s">>}

TopLevels == {<<"c", "o", "m">>, <<"o", "r", "g">>}

RECURSIVE joinDots(_)
joinDots(labels) ==
  IF Len(labels) = 1 THEN labels[1]
  ELSE labels[1] \o <<".">> \o joinDots(Tail(labels))

Hosts ==
  {joinDots(ls \o <<tld>>) : ls \in UNION {[1..n -> HostLabels] : n \in 1..MaxLabels},
                             tld \in TopLevels}

DetectUrls ==
  {<<"https:", "/", "/">> \o h \o path : h \in Hosts, path \in {<<>>, <<"/">>, <<"/", "p">>}}
  \cup {Null, <<"n", "o">>}

DetectInit ==
  /\ SysInit
  /\ arg \in [url : DetectUrls]
  /\ ret = NoCall

CallDetectPlatform ==
  /\ ~ret.done
  /\ ret' = [done |-> TRUE, out |-> detectPlatform(arg.url)]
  /\ UNCHANGED <<sysVars, arg>>

DetectNext == CallDetectPlatform

SpecDetect == DetectInit /\ [][DetectNext]_vars

\* the host is the domain, or a name under it
isDomainOf(h, d) ==
  \/ h = d
  \/ Len(h) > Len(d) + 1 /\ SubSeq(h, Len(h) - Len(d), Len(h)) = <<".">> \o d

\* C20: detectPlatform gives x for the hosts of twitter.com and x.com, linkedin for
\* those of linkedin.com, substack for the hosts under substack.com, and generic_web
\* for every other host (either of the two for substack.com itself).
C20_DetectPlatform ==
  (ret.done /\ ret.out # Thrown) =>
    \E h \in {toLowerCase(hostnameOf(arg.url))} :
      IF isDomainOf(h, TwitterCom) \/ isDomainOf(h, XCom) THEN ret.out = "x"
      ELSE IF isDomainOf(h, LinkedinCom) THEN ret.out = "linkedin"
      ELSE IF h = SubstackCom THEN ret.out \in {"substack", "generic_web"}
      ELSE IF isDomainOf(h, SubstackCom) THEN ret.out = "substack"
      ELSE ret.out = "generic_web"

\* what holds: the hosts of the four domains get their platform
DetectKnownHosts ==
  (ret.done /\ ret.out # Thrown) =>
    \E h \in {toLowerCase(hostnameOf(arg.url))} :
      /\ (isDomainOf(h, TwitterCom) \/ isDomainOf(h, XCom)) => ret.out = "x"
      /\ (isDomainOf(h, LinkedinCom) /\ ~includesStr(h, TwitterCom) /\ ~includesStr(h, XCom))
           => ret.out = "linkedin"
      /\ (isDomainOf(h, SubstackCom) /\ ~includesStr(h, TwitterCom) /\ ~includesStr(h, XCom)
          /\ ~includesStr(h, LinkedinCom)) => ret.out = "substack"

(***************************************************************************)
(* service-worker.js: getBookmarkBaseDir. A path is the list of its parts, *)
(* as split('/') gives them: the first part of an absolute path is empty.  *)
(***************************************************************************)
BOOKMARK_SUBDIR == "08_bookmarked_content"

\* parts.findIndex(p => p === x), counted from 1, 0 when there is none
findIndex(parts, x) ==
  Let({i \in 1..Len(parts) : parts[i] = x}, LAMBDA hits : IF hits = {} THEN 0 ELSE Min(hits))

\* the parts of the directory that saveBookmark sends as baseDir
getBookmarkBaseDir(kbFilePath) ==
  Let2(kbFilePath, findIndex(kbFilePath, "AI_KB"), LAMBDA parts, aiKbIndex :
    IF aiKbIndex >= 1 THEN Append(SubSeq(parts, 1, aiKbIndex), BOOKMARK_SUBDIR)
    ELSE Append(SubSeq(parts, 1, Len(parts) - 1), BOOKMARK_SUBDIR))

(***************************************************************************)
(* The base directory specification: a path of the KB file is drawn, and   *)
(* getBookmarkBaseDir is applied.                                          *)
(***************************************************************************)
MaxDirs == 3

DirNames == {"home", "AI_KB", "bookmarks", "08_bookmarked_content"}

KbFilePaths ==
  {<<"">> \o dirs \o <<f>> : dirs \in UNION {[1..n -> DirNames] : n \in 0..MaxDirs},
                             f \in {"curated_sources.yaml", "kb.yaml"}}

BaseDirInit ==
  /\ SysInit
  /\ arg \in [kbFilePath : KbFilePaths]
  /\ ret = NoCall

CallGetBookmarkBaseDir ==
  /\ ~ret.done
  /\ ret' = [done |-> TRUE, out |-> getBookmarkBaseDir(arg.kbFilePath)]
  /\ UNCHANGED <<sysVars, arg>>

BaseDirNext == CallGetBookmarkBaseDir

SpecBaseDir == BaseDirInit /\ [][BaseDirNext]_vars

\* C21: the base directory sent with create_bookmark is the parent directory of the
\* configured KB file.
C21_BaseDirIsParent ==
  ret.done => ret.out = SubSeq(arg.kbFilePath, 1, Len(arg.kbFilePath) - 1)

\* what holds: the base directory is the directory 08_bookmarked_content under the
\* first AI_KB directory of the path, or under the parent directory of the KB file
BaseDirShape ==
  ret.done =>
    /\ ret.out[Len(ret.out)] = BOOKMARK_SUBDIR
    /\ \E n \in 1..(Len(arg.kbFilePath) - 1) :
         /\ SubSeq(ret.out, 1, Len(ret.out) - 1) = SubSeq(arg.kbFilePath, 1, n)
         /\ n = Len(arg.kbFilePath) - 1 \/ arg.kbFilePath[n] = "AI_KB"

\* C22: on every pair of URLs urlsMatch of utils/deduplication.js answers as the
\* equality of the service worker's normalizeUrl results does, and on every pair of
\* handles handlesMatch answers as the equality of its normalizeHandle results does.
C22_SharedNormalization ==
  ret.done =>
    /\ (ret.a = ret.b) <=> (ret.da = ret.db)
    /\ arg.kind = "handle" => (handlesMatch(arg.u, arg.v) <=> (ret.a = ret.b))
    /\ arg.kind # "handle" => (urlsMatch(arg.u, arg.v) <=> (ret.a = ret.b))

\* what holds: the two normalizeHandle agree on the handles of the model
HandlesAgree == (ret.done /\ arg.kind = "handle") => (ret.a = ret.da /\ ret.b = ret.db)

\* the references are in non-decreasing order
ordered(refs) == \A i, j \in 1..Len(refs) : i < j => ~lessStr(refs[j], refs[i])

\* C23: after updateTopicIndex(topics, authorRef) the keys of topic_index are in
\* order and the reference list of every topic of topics is in order, whatever the
\* order before the call and whether or not authorRef was in the list.
C23_AlwaysResorted ==
  ret.done =>
    /\ sortedKeys(ret.doc.topic_index)
    /\ \A k \in 1..Len(ret.doc.topic_index) :
         ret.doc.topic_index[k].key \in elems(arg.topics) => ordered(ret.doc.topic_index[k].refs)

\* what holds: the keys are in order after every call, and the reference list of a
\* topic of topics is in order when the call has added authorRef to it
ResortedWhenAdded ==
  ret.done =>
    /\ sortedKeys(ret.doc.topic_index)
    /\ \A k \in 1..Len(ret.doc.topic_index) :
         \A b \in 1..Len(ret.before.topic_index) :
           (/\ ret.doc.topic_index[k].key \in elems(arg.topics)
            /\ ret.before.topic_index[b].key = ret.doc.topic_index[k].key
            /\ ~includes(ret.before.topic_index[b].refs, arg.ref))
             => ordered(ret.doc.topic_index[k].refs)

\* the save of the handler has reported success, with its item added
SaveSucceeded(p) ==
  /\ pc[p] = "done"
  /\ req[p].action = "saveContent"
  /\ req[p].platform \in Platforms
  /\ req[p].contentData # NoContent
  /\ result[p].success
  /\ result[p].contentAdded

\* the document holds the author of the message, its item under that author, and
\* the reference of that author under every topic of the message
Holds(doc, m) ==
  /\ findAuthor(doc, m.platform, getAuthorIdentifier(m.platform, m.authorData)) > 0
  /\ contentExists(authorAt(doc, m.platform, m.authorData), m.contentData.url, m.platform)
  /\ \A t \in elems(m.topics) :
       \E k \in 1..Len(doc.topic_index) :
         /\ doc.topic_index[k].key = t
         /\ includes(doc.topic_index[k].refs,
                     getAuthorRef(m.platform, authorAt(doc, m.platform, m.authorData)))

\* C24: when two saves of different items have both reported success, the document on
\* disk holds the author, the item and the topic references of both.
C24_NoLostSave ==
  \A p, q \in Procs :
    (/\ p # q
     /\ SaveSucceeded(p) /\ SaveSucceeded(q)
     /\ normalizeUrl(req[p].contentData.url) # normalizeUrl(req[q].contentData.url))
      => (Holds(disk.data, req[p]) /\ Holds(disk.data, req[q]))

\* what holds: a save that has read the document after the other one was written
\* loses nothing
NoLostSaveInSequence ==
  \A p, q \in Procs :
    (/\ p # q
     /\ SaveSucceeded(p) /\ SaveSucceeded(q)
     /\ normalizeUrl(req[p].contentData.url) # normalizeUrl(req[q].contentData.url)
     /\ Holds(snap[q], req[p]))
      => (Holds(disk.data, req[p]) /\ Holds(disk.data, req[q]))

\* no native message of the service worker is in flight, and every request so far
\* was answered with success by the host and by the handler
Quiet ==
  \A p \in Procs :
    \/ pc[p] = "idle"
    \/ pc[p] = "done" /\ resp[p].success /\ result[p].success

\* C25: whenever no request is in flight (and none has failed), kbCache is null or
\* equals the document in the KB file.
C25_CacheCoherent == (Quiet /\ kbCache.set) => kbCache.data = disk.data

\* what holds: after one request alone, the cache equals the document in the file
CacheCoherentAlone == (Quiet /\ kbCache.set /\ nOps = 1) => kbCache.data = disk.data

(***************************************************************************)
(* The cache specification: two KB files, the configured path and the      *)
(* requests readKB, checkDuplicate, getTopics and saveSettings, each       *)
(* handled alone. arg holds the files and the configured path, ret the     *)
(* last response.                                                          *)
(***************************************************************************)
KbPaths == {"A", "B"}

\* the documents that one save of the model, with content, leaves from the empty one
SavedDocs ==
  {mutateKB(EmptyDoc, m.platform, m.authorData, m.contentData, m.topics).kb :
     m \in {m \in SaveMessages : m.contentData # NoContent}}

\* the checkDuplicate messages of the popup: platform, author identifier, URL
DuplicateQueries ==
  {[platform |-> m.platform,
    authorIdentifier |-> getAuthorIdentifier(m.platform, m.authorData),
    url |-> m.contentData.url] : m \in {m \in SaveMessages : m.contentData # NoContent}}

CacheInit ==
  /\ SysInit
  /\ arg \in [files : [KbPaths -> SavedDocs \cup {EmptyDoc}], kbFilePath : KbPaths]
  /\ ret = NoCall

\* kbCache || await readKB(filePath)
cachedOrRead(filePath) == IF kbCache.set THEN kbCache.data ELSE arg.files[filePath]

CacheReadKB(filePath) ==
  /\ kbCache' = [set |-> TRUE, data |-> arg.files[filePath]]
  /\ ret' = [done |-> TRUE, action |-> "readKB", filePath |-> filePath]
  /\ UNCHANGED <<disk, tmp, wlock, folders, pc, req, kb, snap, resp, result, cres, nOps, sent, recentAdditions, arg>>

CacheCheckDuplicate(filePath, q) ==
  /\ kbCache' = [set |-> TRUE, data |-> cachedOrRead(filePath)]
  /\ ret' = [done |-> TRUE, action |-> "checkDuplicate", filePath |-> filePath, query |-> q,
             out |-> checkDuplicate(cachedOrRead(filePath), q.platform, q.authorIdentifier, q.url)]
  /\ UNCHANGED <<disk, tmp, wlock, folders, pc, req, kb, snap, resp, result, cres, nOps, sent, recentAdditions, arg>>

CacheGetTopics ==
  /\ kbCache' = [set |-> TRUE, data |-> cachedOrRead(arg.kbFilePath)]
  /\ ret' = [done |-> TRUE, action |-> "getTopics", filePath |-> arg.kbFilePath,
             out |-> getExistingTopics(cachedOrRead(arg.kbFilePath))]
  /\ UNCHANGED <<disk, tmp, wlock, folders, pc, req, kb, snap, resp, result, cres, nOps, sent, recentAdditions, arg>>

\* saveSettings({kbFilePath}): the stored path changes, the cache stays
CacheSaveSettings(filePath) ==
  /\ arg.kbFilePath # filePath
  /\ arg' = [arg EXCEPT !.kbFilePath = filePath]
  /\ ret' = [done |-> TRUE, action |-> "saveSettings", filePath |-> filePath]
  /\ UNCHANGED sysVars

CacheNext ==
  \/ \E f \in KbPaths : CacheReadKB(f)
  \/ \E f \in KbPaths : \E q \in DuplicateQueries : CacheCheckDuplicate(f, q)
  \/ CacheGetTopics
  \/ \E f \in KbPaths : CacheSaveSettings(f)

SpecCache == CacheInit /\ [][CacheNext]_vars

\* C26: checkDuplicate(filePath) answers from the document of the file at filePath,
\* and getTopics from the document of the file at the configured path.
C26_CacheOfRequestedFile ==
  /\ (ret.done /\ ret.action = "checkDuplicate") =>
       ret.out = checkDuplicate(arg.files[ret.filePath], ret.query.platform,
                                ret.query.authorIdentifier, ret.query.url)
  /\ (ret.done /\ ret.action = "getTopics") =>
       ret.out = getExistingTopics(arg.files[ret.filePath])

\* what holds: every answer is the answer on the document of one of the files
AnswersFromSomeFile ==
  /\ (ret.done /\ ret.action = "checkDuplicate") =>
       \E f \in KbPaths :
         ret.out = checkDuplicate(arg.files[f], ret.query.platform,
                                  ret.query.authorIdentifier, ret.query.url)
  /\ (ret.done /\ ret.action = "getTopics") =>
       \E f \in KbPaths : ret.out = getExistingTopics(arg.files[f])

\* a saveContent message that the handler has answered with success
SaveAnswered(p) ==
  /\ pc[p] = "done"
  /\ req[p].action = "saveContent"
  /\ result[p].success

\* C27: saveToKB reports contentAdded = true only when this call appended a content
\* item; a save without contentData does not report contentAdded = true.
C27_ContentAddedOnlyWhenAppended ==
  \A p \in Procs :
    (SaveAnswered(p) /\ result[p].contentAdded) => req[p].contentData # NoContent

\* what holds: with contentData given, contentAdded = true is reported only when the
\* document written holds the item of the message
ContentAddedWithContent ==
  \A p \in Procs :
    (SaveAnswered(p) /\ req[p].platform \in Platforms /\ req[p].contentData # NoContent
       /\ result[p].contentAdded) => Holds(kb[p], req[p])

(***************************************************************************)
(* The idempotence specification: a URL or a handle is drawn and each      *)
(* normaliser is applied to it, and again to its own result.               *)
(***************************************************************************)
\* a parameter name that differs from a tracking name only by letter case
UpperCaseQueries == {<<"UTM_SOURCE", "=", "a">>}

IdemUrls ==
  {renderUrl(h, p, q) :
     h \in UrlHosts, p \in UrlPathsSlash,
     q \in PlainQueries \cup TrackingQueries \cup UpperCaseQueries}

\* handles as they are, and with whitespace before or after
IdemHandles ==
  HandleForms \cup {<<" ">> \o h : h \in HandleForms} \cup {h \o <<" ">> : h \in HandleForms}

IdemInit ==
  /\ SysInit
  /\ arg \in [kind : {"url"}, u : IdemUrls] \cup [kind : {"handle"}, u : IdemHandles]
  /\ ret = NoCall

CallNormalizeUrlTwice ==
  /\ arg.kind = "url"
  /\ ~ret.done
  /\ \E once \in {normalizeUrl(arg.u)} : \E donce \in {dedupNormalizeUrl(arg.u)} :
       ret' = [done |-> TRUE, once |-> once, twice |-> normalizeUrl(once),
               donce |-> donce, dtwice |-> dedupNormalizeUrl(donce)]
  /\ UNCHANGED <<arg, sysVars>>

CallNormalizeHandleTwice ==
  /\ arg.kind = "handle"
  /\ ~ret.done
  /\ \E once \in {normalizeHandle(arg.u)} : \E donce \in {dedupNormalizeHandle(arg.u)} :
       ret' = [done |-> TRUE, once |-> once, twice |-> normalizeHandle(once),
               donce |-> donce, dtwice |-> dedupNormalizeHandle(donce)]
  /\ UNCHANGED <<arg, sysVars>>

IdemNext == CallNormalizeUrlTwice \/ CallNormalizeHandleTwice

SpecIdem == IdemInit /\ [][IdemNext]_vars

\* C28: normalizeUrl and normalizeHandle, of the service worker and of
\* utils/deduplication.js, are idempotent: a second application changes nothing.
C28_Idempotent == ret.done => (ret.twice = ret.once /\ ret.dtwice = ret.donce)

\* the query of the URL has a parameter named as a tracking one but for letter case
hasUpperCaseParam(u) == \E i \in 1..Len(u) : u[i] \in {q[1] : q \in UpperCaseQueries}

\* what holds: a second application changes nothing for a URL without such a
\* parameter and for a handle that does not begin with whitespace
IdempotentOtherwise ==
  (ret.done /\ (IF arg.kind = "url" THEN ~hasUpperCaseParam(arg.u) ELSE arg.u[1] # " "))
    => (ret.twice = ret.once /\ ret.dtwice = ret.donce)

\* the handler of a saveBookmark message has the failed response of create_bookmark
CreateFailed(p) ==
  /\ pc[p] = "createResp"
  /\ req[p].action = "saveBookmark"
  /\ ~resp[p].success

\* C29: when create_bookmark fails, for an existing folder or any other reason,
\* saveBookmark ends there: it sends no read and no write of the Index Document, adds
\* no entry to recentAdditions, and the caller gets success = false with the error text.
C29_FailedCreateStopsSave ==
  [][\A p \in Procs :
       (CreateFailed(p) /\ pc'[p] # pc[p]) =>
          /\ pc'[p] = "done"
          /\ sent'[p] = <<"create_bookmark">>
          /\ recentAdditions' = recentAdditions
          /\ ~result'[p].success
          /\ result'[p].error = resp[p].error
          /\ resp[p].error # "none"
          /\ disk' = disk /\ folders' = folders /\ kbCache' = kbCache]_vars

\* a saveBookmark that was refused for the folder of an earlier one has ended with
\* the failure, and the list holds the entry of the earlier one only
C29_Witness ==
  \E p \in Procs :
    /\ pc[p] = "done"
    /\ req[p].action = "saveBookmark"
    /\ resp[p].error = "AlreadyExists"
    /\ sent[p] = <<"create_bookmark">>
    /\ result[p] = failure("AlreadyExists")
    /\ Len(recentAdditions) = 1

\* the reference ref under topic is the reference of an author of the document whose
\* topics hold the topic
backed(doc, topic, ref) ==
  \E pl \in DOMAIN doc.favorite_authors :
    \E i \in 1..Len(doc.favorite_authors[pl]) :
      /\ getAuthorRef(pl, doc.favorite_authors[pl][i]) = ref
      /\ includes(doc.favorite_authors[pl][i].topics, topic)

\* C30: from the empty document, with saves that pass one topic list as
\* authorData.topics and as topics, every reference under every topic of topic_index
\* is the getAuthorRef value of an author in favorite_authors whose topics hold it.
C30_NoDanglingTopicRef ==
  \A doc \in Docs :
    \A k \in 1..Len(doc.topic_index) :
      \A r \in elems(doc.topic_index[k].refs) : backed(doc, doc.topic_index[k].key, r)

\* a save of an author the document already held has put the author under a topic
\* that the author did not have, and the document is on disk
C30_Witness ==
  \E p \in Procs :
    /\ pc[p] = "done"
    /\ req[p].action = "saveContent"
    /\ req[p].platform \in Platforms
    /\ result[p].success
    /\ ~result[p].authorAdded
    /\ disk.data = kb[p]
    /\ \E k \in 1..Len(kb[p].topic_index) :
         /\ includes(req[p].topics, kb[p].topic_index[k].key)
         /\ ~includes(authorAt(snap[p], req[p].platform, req[p].authorData).topics,
                      kb[p].topic_index[k].key)
         /\ includes(kb[p].topic_index[k].refs,
                     getAuthorRef(req[p].platform,
                                  authorAt(kb[p], req[p].platform, req[p].authorData)))

=============================================================================
